---- MODULE Spec2Model ----
(***************************************************************************)
(* A model of src/nav_update_scheduler.py: the SQLite cache (DataCache),   *)
(* the rate-limited fetch layer (DataFetcher.fetch_url under its two       *)
(* decorators) and the per-series update coroutines of DataUpdater.        *)
(***************************************************************************)
EXTENDS Integers, Sequences, FiniteSets, TLC

VARIABLES
    aiosqlite,     \* TRUE iff the global name aiosqlite resolves in the module
    db_exists,     \* TRUE iff the table market_data exists in the database file
    market_data,   \* the rows of table market_data
    next_id,       \* the next AUTOINCREMENT id of market_data
    cache_ret,     \* what the latest DataCache call handed to its caller
    latest_set,    \* history: per (data_type, timestamp), the data of the latest set that returned
    n_ops,         \* history: number of DataCache calls made so far
    clock,         \* the time the rate limiter's clock reads, in seconds
    limiter,       \* the ratelimit.limits decorator of fetch_url: last_reset, num_calls
    keys,          \* per API key of Config, TRUE iff it is configured
    sheets,        \* per Google Sheet, the rows appended to it
    nifty,         \* the update_nifty coroutine: pc and locals
    fred,          \* the update_fred_data coroutine: pc and locals
    ret,           \* per coroutine, what it handed to asyncio.gather
    calls,         \* history: one record per attempt of a fetch_url call of the run
    run,           \* the number of the invocation of the script that is running
    gs,            \* the Google Sheets destination and the latest append_data call on it
    file,          \* the CSV file at filepath: whether it is there, its content, its permission
    merge,         \* the _safe_merge_csv call: pc and locals
    reader,        \* what another process reading the CSV file has seen
    mainst,        \* main: pc, the result of each gathered task, what main returned
    session,       \* the aiohttp ClientSession of the DataFetcher, and how it was used
    tasks,         \* per coroutine main gathers: where it is suspended and what it did
    gold,          \* the update_gold coroutine: pc and locals
    currency,      \* the update_currency coroutine: pc and locals
    nav,           \* the update_nav coroutine: pc and locals
    funds          \* the get_fund_data call of IndianMutualFundDataFetcher: pc and locals

cacheVars == <<aiosqlite, db_exists, market_data, next_id, cache_ret, latest_set, n_ops>>
runVars == <<clock, limiter, keys, sheets, nifty, fred, ret, calls, run>>
mainVars == <<mainst, session, tasks>>
seriesVars == <<gold, currency, nav, funds>>
ioVars == <<gs, file, merge, reader, mainVars, seriesVars>>

vars == <<cacheVars, runVars, ioVars>>

-----------------------------------------------------------------------------
(* Bounds                                                                  *)

MaxOps == 4
MaxField == 10
MaxClock == 4

-----------------------------------------------------------------------------
(* Values                                                                  *)

None == <<>>
Some(v) == <<v>>

\* The float values a MarketData carries in the cache specification.
CacheValues == {100, 250}

\* datetime values. `field` stands for the fixed-width, zero-padded fields of
\* the ISO form (year ... second), `us` for the microsecond.
Micros == {0, 5}
Fields == {MaxField - 1, MaxField}
Timestamps == [field : Fields, us : Micros]

DataTypes == {"Nifty", "Gold"}
Sources == {"Financial Modeling Prep"}
TtlHours == {0, 24}

\* Chronological order of two datetime values.
Earlier(a, b) == a.field < b.field \/ (a.field = b.field /\ a.us < b.us)

-----------------------------------------------------------------------------
(* datetime.isoformat, datetime.fromisoformat and SQLite's text order      *)

\* Characters are their ASCII codes.
Digit(d) == 48 + d

\* n as `width` decimal digits, zero-padded on the left.
RECURSIVE ZeroPad(_, _)
ZeroPad(n, width) ==
    IF width = 0 THEN <<>>
    ELSE Append(ZeroPad(n \div 10, width - 1), Digit(n % 10))

\* datetime.isoformat(): fixed-width fields, then ".ffffff" only when the
\* microsecond is not 0.
isoformat(ts) ==
    ZeroPad(ts.field, 2) \o (IF ts.us = 0 THEN <<>> ELSE <<46>> \o ZeroPad(ts.us, 6))

RECURSIVE DigitsValue(_)
DigitsValue(s) ==
    IF s = <<>> THEN 0
    ELSE 10 * DigitsValue(SubSeq(s, 1, Len(s) - 1)) + (s[Len(s)] - 48)

\* datetime.fromisoformat() on a string isoformat() produced.
fromisoformat(s) ==
    [field |-> DigitsValue(SubSeq(s, 1, 2)),
     us    |-> IF Len(s) > 2 THEN DigitsValue(SubSeq(s, 4, Len(s))) ELSE 0]

\* SQLite's BINARY collation on TEXT: bytewise, a proper prefix sorts first.
TextLess(a, b) ==
    \E i \in 1..(Len(a) + 1) :
        /\ i <= Len(b)
        /\ \A j \in 1..(i - 1) : a[j] = b[j]
        /\ (i = Len(a) + 1 \/ a[i] < b[i])

-----------------------------------------------------------------------------
(* MarketData and the table market_data                                    *)

MarketData(timestamp, value, source) ==
    [timestamp |-> timestamp, value |-> value, source |-> source]

\* MarketData.to_dict() through json.dumps: the timestamp goes in as text.
to_dict(data) ==
    [timestamp |-> isoformat(data.timestamp), value |-> data.value, source |-> data.source]

\* A plain INSERT into a table without the UNIQUE constraint.
InsertOrReplace_NoUnique(rows, id, data_type, timestamp, data) ==
    rows \cup {[id |-> id, data_type |-> data_type, timestamp |-> timestamp, data |-> data]}

\* INSERT OR REPLACE under UNIQUE(data_type, timestamp) ON CONFLICT REPLACE:
\* the conflicting row is deleted, the new row gets a fresh id.
InsertOrReplace(rows, id, data_type, timestamp, data) ==
    {r \in rows : ~(r.data_type = data_type /\ r.timestamp = timestamp)}
        \cup {[id |-> id, data_type |-> data_type, timestamp |-> timestamp, data |-> data]}

\* The query with ORDER BY timestamp ASC: the oldest row of data_type.
SelectLatest_Oldest(rows, data_type) ==
    LET mine == {r \in rows : r.data_type = data_type}
    IN  IF mine = {} THEN None
        ELSE LET row == CHOOSE r \in mine : \A q \in mine : ~TextLess(q.timestamp, r.timestamp)
             IN  Some(MarketData(fromisoformat(row.data.timestamp), row.data.value, row.data.source))

\* SELECT data ... WHERE data_type = ? ORDER BY timestamp DESC LIMIT 1,
\* then the row rebuilt as a MarketData; None when there is no row.
SelectLatest(rows, data_type) ==
    LET mine == {r \in rows : r.data_type = data_type}
    IN  IF mine = {} THEN None
        ELSE LET row == CHOOSE r \in mine : \A q \in mine : ~TextLess(r.timestamp, q.timestamp)
             IN  Some(MarketData(fromisoformat(row.data.timestamp), row.data.value, row.data.source))

\* The (data_type, timestamp) keys present in the table.
KeysOf(rows) == {<<r.data_type, r.timestamp>> : r \in rows}

\* aiosqlite.connect(...) followed by a statement on market_data: the name
\* aiosqlite is looked up first, then the statement needs the table.
ConnectOutcome(bound, exists) ==
    IF ~bound THEN "NameError"
    ELSE IF ~exists THEN "OperationalError"
    ELSE "returned"

-----------------------------------------------------------------------------
(* The parts of the program a specification does not exercise              *)

\* No append_data call was made on the GoogleSheetsManager.
SinkIdle == gs = [pc |-> "idle"]

\* _safe_merge_csv is not called and there is no CSV file.
MergeIdle ==
    /\ file = [kind |-> "absent"]
    /\ merge = [pc |-> "idle"]
    /\ reader = None

\* main is not running: there is no DataFetcher and no gathered task.
MainIdle ==
    /\ mainst = [pc |-> "idle"]
    /\ session = [state |-> "none"]
    /\ tasks = [t \in {} |-> ""]

\* update_gold, update_currency and update_nav were not called.
SeriesIdle ==
    /\ gold = [pc |-> "done"]
    /\ currency = [pc |-> "done"]
    /\ nav = [pc |-> "done"]

\* No method of IndianMutualFundDataFetcher was called.
FundsIdle == funds = [pc |-> "idle"]

-----------------------------------------------------------------------------
(* DataCache                                                               *)

Ret(op, data_type, outcome, value) ==
    [op |-> op, data_type |-> data_type, outcome |-> outcome, value |-> value]

\* DataCache.initialize_db: CREATE TABLE IF NOT EXISTS.
initialize_db ==
    /\ n_ops < MaxOps
    /\ n_ops' = n_ops + 1
    /\ IF aiosqlite
       THEN /\ db_exists' = TRUE
            /\ cache_ret' = Ret("initialize_db", "", "returned", None)
       ELSE /\ db_exists' = db_exists
            /\ cache_ret' = Ret("initialize_db", "", "NameError", None)
    /\ UNCHANGED <<aiosqlite, market_data, next_id, latest_set, runVars, ioVars>>

\* DataCache.set with the cleanup of rows older than the TTL switched on.
RowsAfterSet_Cleanup(rows, id, data_type, data, ttl_hours) ==
    {r \in InsertOrReplace(rows, id, data_type, isoformat(data.timestamp), to_dict(data)) :
        ~(r.data_type = data_type /\ ttl_hours = 0
            /\ TextLess(r.timestamp, isoformat(data.timestamp)))}

\* The rows after DataCache.set has executed its statement and committed.
\* ttl_hours is accepted and not used: the cleanup call is commented out.
RowsAfterSet(rows, id, data_type, data, ttl_hours) ==
    InsertOrReplace(rows, id, data_type, isoformat(data.timestamp), to_dict(data))

\* The statement of DataCache.set executed and committed.
Committed(data_type, data, ttl_hours) ==
    /\ market_data' = RowsAfterSet(market_data, next_id, data_type, data, ttl_hours)
    /\ next_id' = next_id + 1
    /\ latest_set' =
           {e \in latest_set : ~(e.data_type = data_type /\ e.data.timestamp = data.timestamp)}
               \cup {[data_type |-> data_type, data |-> data]}

\* DataCache.set(data_type, data, ttl_hours).
set(data_type, data, ttl_hours) ==
    LET outcome == ConnectOutcome(aiosqlite, db_exists)
    IN  /\ n_ops < MaxOps
        /\ cache_ret.op # "none"
        /\ n_ops' = n_ops + 1
        /\ cache_ret' = Ret("set", data_type, outcome, None)
        /\ IF outcome = "returned"
           THEN Committed(data_type, data, ttl_hours)
           ELSE UNCHANGED <<market_data, next_id, latest_set>>
        /\ UNCHANGED <<aiosqlite, db_exists, runVars, ioVars>>

\* DataCache.get(data_type).
get(data_type) ==
    LET outcome == ConnectOutcome(aiosqlite, db_exists)
    IN  /\ n_ops < MaxOps
        /\ cache_ret.op # "none"
        /\ n_ops' = n_ops + 1
        /\ cache_ret' = Ret("get", data_type, outcome,
                            IF outcome = "returned" THEN SelectLatest(market_data, data_type) ELSE None)
        /\ UNCHANGED <<aiosqlite, db_exists, market_data, next_id, latest_set, runVars, ioVars>>

\* The module uses the name aiosqlite (lines 123, 143, 159) and never imports
\* it (lines 1-19): run as shipped the name is unbound and every use raises
\* NameError. aiosqlite = TRUE is the module loaded with the name bound.
\* The database file at db_path may be there, with its table, from an earlier
\* process.
CacheInit ==
    /\ aiosqlite \in BOOLEAN
    /\ db_exists \in BOOLEAN
    /\ market_data = {}
    /\ next_id = 1
    /\ cache_ret = Ret("none", "", "returned", None)
    /\ latest_set = {}
    /\ n_ops = 0
    /\ clock = 0
    /\ limiter = [last_reset |-> 0, num_calls |-> 0]
    /\ keys = [n \in {} |-> FALSE]
    /\ sheets = [n \in {} |-> <<>>]
    /\ nifty = [pc |-> "done"]
    /\ fred = [pc |-> "done"]
    /\ ret = [n \in {} |-> ""]
    /\ calls = <<>>
    /\ run = 1
    /\ SinkIdle
    /\ MergeIdle
    /\ MainIdle
    /\ FundsIdle
    /\ SeriesIdle

CacheSet ==
    \E data_type \in DataTypes, timestamp \in Timestamps, value \in CacheValues,
       source \in Sources, ttl_hours \in TtlHours :
        set(data_type, MarketData(timestamp, value, source), ttl_hours)

CacheGet == \E data_type \in DataTypes : get(data_type)

CacheNext == initialize_db \/ CacheSet \/ CacheGet

SpecCache == CacheInit /\ [][CacheNext]_vars

-----------------------------------------------------------------------------
(* Claims about DataCache, checked under SpecCache                         *)

MarketDatas == [timestamp : Timestamps, value : CacheValues, source : Sources]

\* What latest(data_type) is by the history: the data of the chronologically
\* latest timestamp ever set for data_type, None when nothing was set.
ExpectedLatest(data_type) ==
    LET mine == {e \in latest_set : e.data_type = data_type}
    IN  IF mine = {} THEN None
        ELSE Some((CHOOSE e \in mine :
                      \A q \in mine : ~Earlier(e.data.timestamp, q.data.timestamp)).data)

C8_OneRowPerKey ==
    /\ \A r1, r2 \in market_data :
           (r1.data_type = r2.data_type /\ r1.timestamp = r2.timestamp) => r1 = r2
    /\ \A r \in market_data :
           \E e \in latest_set :
               /\ e.data_type = r.data_type
               /\ isoformat(e.data.timestamp) = r.timestamp
               /\ to_dict(e.data) = r.data

C8_RepeatedSet ==
    \A data_type \in DataTypes, data \in MarketDatas, ttl_hours \in TtlHours :
        (/\ set(data_type, data, ttl_hours)
         /\ [data_type |-> data_type, data |-> data] \in latest_set)
        => \A k \in DataTypes : SelectLatest(market_data', k) = SelectLatest(market_data, k)

\* C8: DataCache.set is idempotent under the key (data_type, timestamp): the
\* table never holds two rows with one key, each row carries the data of the
\* latest set that returned for its key, and a set that repeats the data already
\* stored under its key leaves what get returns for every data_type unchanged.
C8_SetIdempotent == [](C8_OneRowPerKey) /\ [][C8_RepeatedSet]_vars

\* A key was set twice and the table holds its one row.
C8_Witness == next_id = 3 /\ Cardinality(market_data) = 1 /\ cache_ret.op = "set"

\* C9: DataCache.get(data_type) returns the row with the greatest timestamp
\* among the rows ever set for data_type, and returns None, not an error,
\* when no row was ever set for it.
C9_GetLatestOrNone ==
    cache_ret.op = "get" =>
        /\ cache_ret.outcome = "returned"
        /\ cache_ret.value = ExpectedLatest(cache_ret.data_type)

C10_TtlIgnored ==
    \A data_type \in DataTypes, data \in MarketDatas, t1 \in TtlHours, t2 \in TtlHours :
        RowsAfterSet(market_data, next_id, data_type, data, t1)
            = RowsAfterSet(market_data, next_id, data_type, data, t2)

\* C10: the cache never deletes: a (data_type, timestamp) key present in the
\* table is present after every step (set, get, initialize_db), and the rows
\* a set leaves are the same for every ttl_hours.
C10_NeverDeletes ==
    [](C10_TtlIgnored) /\ [][KeysOf(market_data) \subseteq KeysOf(market_data')]_vars

\* An older row of a data_type is still there after a later set of a newer
\* timestamp for the same data_type.
C10_Witness ==
    \E r1, r2 \in market_data :
        /\ r1.data_type = r2.data_type
        /\ TextLess(r1.timestamp, r2.timestamp)
        /\ r1.id < r2.id

\* A call of initialize_db on a database that has the table returns, and
\* leaves the table, its rows and its id sequence as they were.
C12_StoreExists ==
    (initialize_db /\ db_exists) =>
        /\ cache_ret'.outcome = "returned"
        /\ db_exists'
        /\ market_data' = market_data
        /\ next_id' = next_id

\* C12: DataCache.initialize_db is idempotent: called when the store already
\* exists it succeeds and leaves every existing row unchanged.
C12_InitializeIdempotent == [][C12_StoreExists]_vars

-----------------------------------------------------------------------------
(* Config, and the inputs of a run                                         *)

RETRY_ATTEMPTS == 3
RATE_LIMIT == 2
CALLS == 1
SECONDS_PER_DAY == 86400

KeyNames == {"FMP", "TWELVE_DATA", "POLYGON", "FRED"}
NiftySources == <<"FMP", "TWELVE_DATA", "POLYGON">>
SheetNames == {"NIFTY", "FRED"}
Tasks == {"nifty", "fred"}

\* The source string update_nifty stores with the price of source src.
SourceLabel(src) ==
    CASE src = "FMP" -> "Financial Modeling Prep"
      [] src = "TWELVE_DATA" -> "Twelve Data"
      [] src = "POLYGON" -> "Polygon.io"
      [] OTHER -> "FRED"

\* The float values a body can carry, and the bodies of a 2xx response: empty
\* text, text that is not JSON, JSON without the field (or with an error
\* status), JSON whose number does not convert, JSON with a price.
Prices == {100, 0}
NoBody == [kind |-> "none", value |-> 0, date |-> 0]
Bodies ==
    {[kind |-> k, value |-> 0, date |-> 0] : k \in {"empty", "invalid_json", "no_field", "bad_number"}}
        \cup {[kind |-> "price", value |-> v, date |-> 0] : v \in Prices}

\* What session.get can end in: a 2xx with a body, a 4xx or 5xx status
\* (raise_for_status), a network error (aiohttp.ClientError) or a timeout.
Transient == {"5xx", "network", "timeout"}
Outcomes ==
    {[resp |-> r, body |-> NoBody] : r \in {"4xx"} \cup Transient}
        \cup {[resp |-> "2xx", body |-> b] : b \in Bodies}

\* datetime.now() at clock second t with microsecond us; strftime("%Y-%m-%d").
now(t, us) == [field |-> t, us |-> us]
today_str(t) == t \div SECONDS_PER_DAY

\* A price local that may be None, as the value written to a row.
NoneValue == 0 - 1
Unwrap(price) == IF price = None THEN NoneValue ELSE price[1]

-----------------------------------------------------------------------------
(* DataFetcher.fetch_url under @backoff.on_exception and @ratelimit.limits  *)

\* A limiter that admits Config.RATE_LIMIT calls per period.
limits_TwoCalls(lim, t) ==
    LET period_remaining == RATE_LIMIT - (t - lim.last_reset)
        reset == IF period_remaining <= 0 THEN [last_reset |-> t, num_calls |-> 0] ELSE lim
        counted == [reset EXCEPT !.num_calls = @ + 1]
    IN  [lim |-> counted, admitted |-> ~(counted.num_calls > RATE_LIMIT)]

\* ratelimit.limits(calls=1, period=Config.RATE_LIMIT), one call of the
\* wrapper at clock t: the count restarts when the period has run out, the
\* call is counted, and a call over the ceiling raises RateLimitException
\* (the decorator is not combined with sleep_and_retry).
limits(lim, t) ==
    LET period_remaining == RATE_LIMIT - (t - lim.last_reset)
        reset == IF period_remaining <= 0 THEN [last_reset |-> t, num_calls |-> 0] ELSE lim
        counted == [reset EXCEPT !.num_calls = @ + 1]
    IN  [lim |-> counted, admitted |-> ~(counted.num_calls > CALLS)]

\* The try/except of fetch_url's body: the text of a 2xx response, and None
\* for every failure; no exception leaves the body.
FetchBody(o) ==
    IF o.resp = "2xx" THEN [raised |-> "", text |-> Some(o.body)]
    ELSE [raised |-> "", text |-> None]

\* backoff.on_exception(expo, aiohttp.ClientError, max_tries=RETRY_ATTEMPTS):
\* what the wrapper does with what the wrapped call raised on try number try.
on_exception(raised, try) ==
    IF raised = "ClientError" /\ try < RETRY_ATTEMPTS THEN "retry"
    ELSE IF raised # "" THEN "raise"
    ELSE "return"

\* One attempt of a fetch_url call, as the history records it.
CallRec(task, src, try, t, lim, admitted) ==
    [task |-> task, src |-> src, try |-> try, time |-> t, window |-> lim.last_reset,
     admitted |-> admitted,
     outcome |-> IF admitted THEN "pending" ELSE "RateLimitException",
     resp |-> "", parse |-> ""]

\* The attempt of task that is in flight.
InFlight(task) == CHOOSE i \in 1..Len(calls) : calls[i].task = task /\ calls[i].outcome = "pending"

\* The history once the attempt in flight has ended in outcome o.
Answered(task, o, parse) ==
    [calls EXCEPT ![InFlight(task)] =
        [@ EXCEPT !.outcome = IF FetchBody(o).text = None THEN "None" ELSE "body",
                  !.resp = o.resp, !.parse = parse]]

\* json.loads and float() on what fetch_url returned: the price, and whether
\* nothing was there ("nodata"), an exception was caught ("failed"), the field
\* was absent ("no_field") or a price was read ("ok").
Extract(text) ==
    IF text = None \/ text[1].kind = "empty" THEN [price |-> None, parse |-> "nodata"]
    ELSE IF text[1].kind \in {"invalid_json", "bad_number"} THEN [price |-> None, parse |-> "failed"]
    ELSE IF text[1].kind = "no_field" THEN [price |-> None, parse |-> "no_field"]
    ELSE [price |-> Some(text[1].value), parse |-> "ok"]

-----------------------------------------------------------------------------
(* GoogleSheetsManager.append_data                                         *)

\* append_data returning True whatever became of the write.
append_returns_Always(data, ok) == TRUE

\* The return value, given whether the sheet accepts the write.
append_returns(data, ok) == data = <<>> \/ ok

\* The sheets afterwards.
append_data(sh, sheet, data, ok) ==
    IF data # <<>> /\ ok THEN [sh EXCEPT ![sheet] = @ \o data] ELSE sh

-----------------------------------------------------------------------------
(* DataUpdater.update_nifty                                                *)

\* The guard of a source ignoring whether a price was already found.
ShouldAttempt_IgnorePrice(price, key) == key

\* The guard of a source: no price yet, and the source's API key configured.
ShouldAttempt(price, key) == price = None /\ key

\* After a source's except clauses, a source that failed to parse tried again.
NextSource_RetryParse(k, parse) == IF parse = "failed" THEN k ELSE k + 1

\* After a source's try block, whatever happened in it, the next source.
NextSource(k, parse) == k + 1

\* Line 438 without its early return.
ReturnsFalse_Never(price) == FALSE

\* Line 438: no price from any source.
ReturnsFalse(price) == price = None

\* update_nifty from the guard of source k up to its next suspension: sources
\* are passed over while their guard is false or the limiter rejects the call
\* (the RateLimitException is caught by `except Exception`).
RECURSIVE NiftyAdvance(_, _, _, _, _)
NiftyAdvance(k, try, price, lim, log) ==
    IF k > Len(NiftySources)
    THEN [inflight |-> FALSE, k |-> k, try |-> 1, lim |-> lim, log |-> log]
    ELSE IF ShouldAttempt(price, keys[NiftySources[k]])
    THEN LET r == limits(lim, clock)
             rec == CallRec("nifty", NiftySources[k], try, clock, r.lim, r.admitted)
         IN  IF r.admitted
             THEN [inflight |-> TRUE, k |-> k, try |-> try, lim |-> r.lim, log |-> Append(log, rec)]
             ELSE NiftyAdvance(NextSource(k, "raised"), 1, price, r.lim, Append(log, rec))
    ELSE NiftyAdvance(k + 1, 1, price, lim, log)

NiftyLocals(pc, k, try, price, source, pending) ==
    [pc |-> pc, k |-> k, try |-> try, price |-> price, source |-> source, pending |-> pending]

\* update_nifty run from the guard of source k to its next suspension or to
\* its return: lines 360-451.
NiftyProceed(k, try, price, source, log) ==
    LET a == NiftyAdvance(k, try, price, limiter, log)
    IN  /\ limiter' = a.lim
        /\ calls' = a.log
        /\ IF a.inflight
           THEN /\ nifty' = NiftyLocals("await", a.k, a.try, price, source, None)
                /\ UNCHANGED <<sheets, ret>>
           ELSE IF ReturnsFalse(price)
           THEN /\ nifty' = NiftyLocals("done", a.k, 1, price, source, None)
                /\ ret' = [ret EXCEPT !["nifty"] = "False"]
                /\ UNCHANGED sheets
           ELSE \E ok \in BOOLEAN, us \in Micros :
                LET data_row == [date |-> today_str(clock), price |-> Unwrap(price)]
                    success == append_returns(<<data_row>>, ok)
                    connect == ConnectOutcome(aiosqlite, db_exists)
                    data == MarketData(now(clock, us), Unwrap(price), source)
                IN  /\ sheets' = append_data(sheets, "NIFTY", <<data_row>>, ok)
                    /\ IF success /\ connect = "returned"
                       THEN /\ nifty' = NiftyLocals("cache_set", a.k, 1, price, source, Some(data))
                            /\ UNCHANGED ret
                       ELSE /\ nifty' = NiftyLocals("done", a.k, 1, price, source, None)
                            /\ ret' = [ret EXCEPT !["nifty"] = IF success THEN connect ELSE "False"]

\* asyncio.gather starts update_nifty first.
NiftyStart ==
    /\ nifty.pc = "init"
    /\ NiftyProceed(1, 1, None, "", calls)
    /\ UNCHANGED <<cacheVars, clock, keys, fred, run, ioVars>>

\* The request in flight ends; the body is parsed and the coroutine runs on.
NiftyResponse ==
    /\ nifty.pc = "await"
    /\ \E o \in Outcomes :
        LET fb == FetchBody(o)
            ex == Extract(fb.text)
            src == NiftySources[nifty.k]
        IN  IF on_exception(fb.raised, nifty.try) = "retry"
            THEN NiftyProceed(nifty.k, nifty.try + 1, None, "", Answered("nifty", o, "raised"))
            ELSE NiftyProceed(NextSource(nifty.k, ex.parse), 1, ex.price,
                              IF ex.price = None THEN "" ELSE SourceLabel(src),
                              Answered("nifty", o, ex.parse))
    /\ UNCHANGED <<cacheVars, clock, keys, fred, run, ioVars>>

\* await self.cache.set("Nifty", ...) completes; update_nifty returns success.
NiftyCacheSet ==
    /\ nifty.pc = "cache_set"
    /\ Committed("Nifty", nifty.pending[1], 24)
    /\ nifty' = [nifty EXCEPT !.pc = "done", !.pending = None]
    /\ ret' = [ret EXCEPT !["nifty"] = "True"]
    /\ UNCHANGED <<aiosqlite, db_exists, cache_ret, n_ops, clock, limiter, keys, sheets, fred, calls, run, ioVars>>

-----------------------------------------------------------------------------
(* DataUpdater.update_fred_data                                            *)

SERIES_ID == "CPALTT01INM657N"

FredLocals(pc, try, pending) == [pc |-> pc, try |-> try, pending |-> pending]

\* update_fred_data calls fetch_url (try number try) and suspends, or the
\* limiter rejects the call and `except Exception` returns False.
FredFetch(try, log) ==
    LET r == limits(limiter, clock)
        rec == CallRec("fred", "FRED", try, clock, r.lim, r.admitted)
    IN  /\ limiter' = r.lim
        /\ calls' = Append(log, rec)
        /\ IF r.admitted
           THEN /\ fred' = FredLocals("await", try, None)
                /\ UNCHANGED ret
           ELSE /\ fred' = FredLocals("done", try, None)
                /\ ret' = [ret EXCEPT !["fred"] = "False"]

\* asyncio.gather starts update_fred_data after the coroutines before it.
FredStart ==
    /\ fred.pc = "init"
    /\ nifty.pc # "init"
    /\ IF keys["FRED"]
       THEN FredFetch(1, calls)
       ELSE /\ fred' = FredLocals("done", 1, None)
            /\ ret' = [ret EXCEPT !["fred"] = "False"]
            /\ UNCHANGED <<limiter, calls>>
    /\ UNCHANGED <<cacheVars, clock, keys, sheets, nifty, run, ioVars>>

\* The request in flight ends: lines 699-731.
FredResponse ==
    /\ fred.pc = "await"
    /\ \E o \in Outcomes, ok \in BOOLEAN, us \in Micros :
        LET fb == FetchBody(o)
            ex == Extract(fb.text)
            data_row == [date |-> o.body.date, series_id |-> SERIES_ID,
                         value |-> Unwrap(ex.price), source |-> "FRED"]
            success == append_returns(<<data_row>>, ok)
            connect == ConnectOutcome(aiosqlite, db_exists)
            data == MarketData(now(clock, us), Unwrap(ex.price), "FRED")
        IN  IF on_exception(fb.raised, fred.try) = "retry"
            THEN /\ FredFetch(fred.try + 1, Answered("fred", o, "raised"))
                 /\ UNCHANGED sheets
            ELSE /\ calls' = Answered("fred", o, ex.parse)
                 /\ UNCHANGED limiter
                 /\ IF ex.parse # "ok"
                    THEN /\ fred' = FredLocals("done", 1, None)
                         /\ ret' = [ret EXCEPT !["fred"] = "False"]
                         /\ UNCHANGED sheets
                    ELSE /\ sheets' = append_data(sheets, "FRED", <<data_row>>, ok)
                         /\ IF success /\ connect = "returned"
                            THEN /\ fred' = FredLocals("cache_set", 1, Some(data))
                                 /\ UNCHANGED ret
                            ELSE /\ fred' = FredLocals("done", 1, None)
                                 /\ ret' = [ret EXCEPT !["fred"] = "False"]
    /\ UNCHANGED <<cacheVars, clock, keys, nifty, run, ioVars>>

\* await self.cache.set("FRED_<series_id>", ...) completes; returns success.
FredCacheSet ==
    /\ fred.pc = "cache_set"
    /\ Committed("FRED_CPALTT01INM657N", fred.pending[1], 24)
    /\ fred' = FredLocals("done", 1, None)
    /\ ret' = [ret EXCEPT !["fred"] = "True"]
    /\ UNCHANGED <<aiosqlite, db_exists, cache_ret, n_ops, clock, limiter, keys, sheets, nifty, calls, run, ioVars>>

-----------------------------------------------------------------------------
(* One run of the gathered coroutines on one DataFetcher                   *)

\* Time passes.
Tick ==
    /\ clock < MaxClock
    /\ clock' = clock + 1
    /\ UNCHANGED <<cacheVars, limiter, keys, sheets, nifty, fred, ret, calls, run, ioVars>>

Init ==
    /\ aiosqlite \in BOOLEAN
    /\ db_exists = aiosqlite
    /\ market_data = {}
    /\ next_id = 1
    /\ cache_ret = Ret("initialize_db", "", IF aiosqlite THEN "returned" ELSE "NameError", None)
    /\ latest_set = {}
    /\ n_ops = 0
    /\ clock = 0
    /\ limiter = [last_reset |-> 0, num_calls |-> 0]
    /\ keys \in [KeyNames -> BOOLEAN]
    /\ sheets = [n \in SheetNames |-> <<>>]
    /\ nifty = NiftyLocals("init", 1, 1, None, "", None)
    /\ fred = FredLocals("init", 1, None)
    /\ ret = [t \in Tasks |-> "running"]
    /\ calls = <<>>
    /\ run = 1
    /\ SinkIdle
    /\ MergeIdle
    /\ MainIdle
    /\ FundsIdle
    /\ SeriesIdle

Next ==
    \/ Tick
    \/ NiftyStart
    \/ NiftyResponse
    \/ NiftyCacheSet
    \/ FredStart
    \/ FredResponse
    \/ FredCacheSet

Spec == Init /\ [][Next]_vars

-----------------------------------------------------------------------------
(* Claims about the fetch layer and the fallback, checked under Spec       *)

CallsOf(task) == {i \in 1..Len(calls) : calls[i].task = task}
SrcIndex(src) == CHOOSE k \in 1..Len(NiftySources) : NiftySources[k] = src

\* The attempts that belong to the same fetch_url call as attempt i.
SameCall(i) == {j \in 1..Len(calls) : calls[j].task = calls[i].task /\ calls[j].src = calls[i].src}

\* C1: update_nifty tries FMP, Twelve Data, Polygon in that order and one at
\* a time: a later source is fetched only when every earlier fetch has ended
\* without a price, every earlier source was skipped (key not configured) or
\* fetched, and nothing is fetched after a source yielded a price.
C1_OrderedFallback ==
    /\ \A i, j \in CallsOf("nifty") :
           i < j =>
               /\ \/ SrcIndex(calls[i].src) < SrcIndex(calls[j].src)
                  \/ (calls[i].src = calls[j].src /\ calls[i].try < calls[j].try)
               /\ calls[i].outcome # "pending"
               /\ calls[i].parse # "ok"
    /\ \A j \in CallsOf("nifty") :
           \A k \in 1..(SrcIndex(calls[j].src) - 1) :
               \/ ~keys[NiftySources[k]]
               \/ \E i \in CallsOf("nifty") : i < j /\ calls[i].src = NiftySources[k]

\* FMP yielded nothing, Twelve Data yielded the price, and Polygon, though
\* configured, was not fetched.
C1_Witness ==
    /\ nifty.pc = "done"
    /\ keys["POLYGON"]
    /\ \E i, j \in CallsOf("nifty") :
           /\ calls[i].src = "FMP" /\ calls[i].outcome = "None"
           /\ calls[j].src = "TWELVE_DATA" /\ calls[j].parse = "ok"
    /\ \A i \in CallsOf("nifty") : calls[i].src # "POLYGON"

NoNiftyPrice == \A i \in CallsOf("nifty") : calls[i].parse # "ok"

\* C2: when no source of the Nifty series yields a price (no data, parse
\* failure, or source skipped), update_nifty returns False and neither the
\* sheet nor the cache is written.
C2_AllSourcesFail ==
    NoNiftyPrice =>
        /\ sheets["NIFTY"] = <<>>
        /\ \A r \in market_data : r.data_type # "Nifty"
        /\ nifty.pc \in {"init", "await", "done"}
        /\ nifty.pc = "done" => ret["nifty"] = "False"

\* FMP failed in transit, Twelve Data failed to parse, Polygon was skipped.
C2_Witness ==
    /\ nifty.pc = "done"
    /\ ret["nifty"] = "False"
    /\ ~keys["POLYGON"]
    /\ \E i, j \in CallsOf("nifty") :
           /\ calls[i].src = "FMP" /\ calls[i].resp \in Transient
           /\ calls[j].src = "TWELVE_DATA" /\ calls[j].parse = "failed"

\* A fetch_url call has ended when none of its attempts is in flight.
CallEnded(i) == \A j \in SameCall(i) : calls[j].outcome # "pending"

\* C3: a fetch_url call whose upstream fails transiently every time makes
\* exactly RETRY_ATTEMPTS HTTP attempts and then hands back None.
C3_RetriesExactly ==
    \A i \in 1..Len(calls) :
        (/\ CallEnded(i)
         /\ calls[i].admitted
         /\ \A j \in SameCall(i) : calls[j].resp \in Transient)
        => /\ Cardinality({j \in SameCall(i) : calls[j].admitted}) = RETRY_ATTEMPTS
           /\ \A j \in SameCall(i) : calls[j].outcome = "None"

\* C4: every fetch_url call hands its caller a body or None; no exception
\* leaves fetch_url.
C4_NoExceptionLeaves ==
    \A i \in 1..Len(calls) : calls[i].outcome \in {"pending", "body", "None"}

\* The ceiling of the period attempt i falls in was used up before it.
CeilingUsed(i) ==
    Cardinality({j \in 1..(i - 1) :
                    calls[j].admitted /\ calls[i].time - calls[j].window < RATE_LIMIT}) >= CALLS

\* C5: a fetch_url call made while the ceiling of the current period is used
\* is not rejected: it waits and then issues its HTTP request.
C5_BlocksAtCeiling ==
    \A i \in 1..Len(calls) : CeilingUsed(i) => calls[i].admitted

C7_ParseFailureNotRetried ==
    \A i \in 1..Len(calls) :
        calls[i].parse = "failed" =>
            /\ \A j \in SameCall(i) : j <= i
            /\ calls[i].task = "nifty" =>
                   /\ nifty.k > SrcIndex(calls[i].src)
                   /\ nifty.source # SourceLabel(calls[i].src)
            /\ calls[i].task = "fred" =>
                   /\ fred.pc = "done"
                   /\ ret["fred"] = "False"
                   /\ sheets["FRED"] = <<>>

\* A body of each coroutine failed to parse.
C7_Witness ==
    /\ \E i \in CallsOf("nifty") : calls[i].parse = "failed"
    /\ \E i \in CallsOf("fred") : calls[i].parse = "failed"

-----------------------------------------------------------------------------
(* update_nifty over successive invocations of the script                  *)

MaxRuns == 2

\* The script is invoked again, later, in a new process: the module is loaded
\* anew (a fresh limiter), update_nifty starts over, and the sheet and the
\* cache database are as the earlier invocations left them.
NiftyRerun ==
    /\ nifty.pc = "done"
    /\ run < MaxRuns
    /\ clock < MaxClock
    /\ run' = run + 1
    /\ clock' = clock + 1
    /\ limiter' = [last_reset |-> clock + 1, num_calls |-> 0]
    /\ nifty' = NiftyLocals("init", 1, 1, None, "", None)
    /\ ret' = [ret EXCEPT !["nifty"] = "running"]
    /\ calls' = <<>>
    /\ UNCHANGED <<cacheVars, keys, sheets, fred, ioVars>>

\* update_nifty alone: update_fred_data has returned False, its key not
\* being configured.
RunsInit ==
    /\ aiosqlite \in BOOLEAN
    /\ db_exists = aiosqlite
    /\ market_data = {}
    /\ next_id = 1
    /\ cache_ret = Ret("initialize_db", "", IF aiosqlite THEN "returned" ELSE "NameError", None)
    /\ latest_set = {}
    /\ n_ops = 0
    /\ clock = 0
    /\ limiter = [last_reset |-> 0, num_calls |-> 0]
    /\ keys \in {k \in [KeyNames -> BOOLEAN] : ~k["FRED"]}
    /\ sheets = [n \in SheetNames |-> <<>>]
    /\ nifty = NiftyLocals("init", 1, 1, None, "", None)
    /\ fred = FredLocals("done", 1, None)
    /\ ret = [t \in Tasks |-> IF t = "fred" THEN "False" ELSE "running"]
    /\ calls = <<>>
    /\ run = 1
    /\ SinkIdle
    /\ MergeIdle
    /\ MainIdle
    /\ FundsIdle
    /\ SeriesIdle

RunsNext ==
    \/ Tick
    \/ NiftyStart
    \/ NiftyResponse
    \/ NiftyCacheSet
    \/ NiftyRerun

SpecRuns == RunsInit /\ [][RunsNext]_vars

\* update_nifty has returned True: what get("Nifty") returns carries the
\* price and the source the run resolved.
C11_LatestIsResolved ==
    ret["nifty"] = "True" =>
        /\ SelectLatest(market_data, "Nifty") # None
        /\ SelectLatest(market_data, "Nifty")[1].value = Unwrap(nifty.price)
        /\ SelectLatest(market_data, "Nifty")[1].source = nifty.source

\* The step in which the cache write of update_nifty completes: the row get
\* selects afterwards is the observation being written, and every row that
\* was in the table is still in it.
C11_Supersedes ==
    NiftyCacheSet =>
        /\ SelectLatest(market_data', "Nifty") = nifty.pending
        /\ market_data \subseteq market_data'

-----------------------------------------------------------------------------
(* GoogleSheetsManager.append_data on its destination                      *)

\* No DataCache was constructed.
CacheIdle ==
    /\ aiosqlite = FALSE
    /\ db_exists = FALSE
    /\ market_data = {}
    /\ next_id = 1
    /\ cache_ret = Ret("none", "", "returned", None)
    /\ latest_set = {}
    /\ n_ops = 0

\* No update coroutine was created.
RunIdle ==
    /\ clock = 0
    /\ limiter = [last_reset |-> 0, num_calls |-> 0]
    /\ keys = [n \in {} |-> FALSE]
    /\ sheets = [n \in {} |-> <<>>]
    /\ nifty = [pc |-> "done"]
    /\ fred = [pc |-> "done"]
    /\ ret = [n \in {} |-> ""]
    /\ calls = <<>>
    /\ run = 1

MaxRows == 3

\* The rows a caller passes: [today_str, price].
SheetRows == {<<0, 100>>, <<0, 250>>}
Datas == {<<>>} \cup {<<r>> : r \in SheetRows} \cup {<<r1, r2>> : r1 \in SheetRows, r2 \in SheetRows}

\* The destination: whether the spreadsheet sheet_id can be opened, whether
\* it has the worksheet sheet_name, whether the API accepts an append to it.
Destinations == [spreadsheet : BOOLEAN, worksheet : BOOLEAN, writable : BOOLEAN]

\* The requests the try block makes on the client, up to the one that raises.
SinkRequests(dest) ==
    IF ~dest.spreadsheet THEN <<"open_by_key">>
    ELSE IF ~dest.worksheet THEN <<"open_by_key", "worksheet">>
    ELSE <<"open_by_key", "worksheet", "append_rows">>

\* What the try block raises: "" when append_rows returned.
SinkRaises(dest) ==
    IF ~dest.spreadsheet THEN "SpreadsheetNotFound"
    ELSE IF ~dest.worksheet THEN "WorksheetNotFound"
    ELSE IF ~dest.writable THEN "APIError"
    ELSE ""

\* The except clauses without the last one, `except Exception`.
append_except_NoCatchAll(raised) ==
    IF raised = "SpreadsheetNotFound" THEN "False"
    ELSE IF raised = "WorksheetNotFound" THEN "False"
    ELSE raised

\* The three except clauses of append_data: each logs and returns False.
append_except(raised) ==
    IF raised = "SpreadsheetNotFound" THEN "False"
    ELSE IF raised = "WorksheetNotFound" THEN "False"
    ELSE "False"

\* append_data without the early return for empty data.
AppendResult_NoEmptyCheck(dest, rows, data) ==
    IF SinkRaises(dest) = ""
    THEN [returned |-> "True", rows |-> rows \o data, requests |-> SinkRequests(dest)]
    ELSE [returned |-> append_except(SinkRaises(dest)), rows |-> rows,
          requests |-> SinkRequests(dest)]

\* append_data(sheet_id, sheet_name, data) on destination dest holding rows:
\* what it hands back, the rows afterwards, the requests it made.
AppendResult(dest, rows, data) ==
    IF data = <<>>
    THEN [returned |-> "True", rows |-> rows, requests |-> <<>>]
    ELSE IF SinkRaises(dest) = ""
    THEN [returned |-> "True", rows |-> rows \o data, requests |-> SinkRequests(dest)]
    ELSE [returned |-> append_except(SinkRaises(dest)), rows |-> rows,
          requests |-> SinkRequests(dest)]

\* The latest call, as the history records it.
AppendCall(dest, before, data, result) ==
    [dest |-> dest, before |-> before, data |-> data,
     returned |-> result.returned, requests |-> result.requests]

\* One call of append_data.
AppendData ==
    /\ gs.pc # "idle"
    /\ \E data \in Datas :
        LET result == AppendResult(gs.dest, gs.rows, data)
        IN  /\ Len(gs.rows) + Len(data) <= MaxRows
            /\ gs' = [pc |-> "called", dest |-> gs.dest, rows |-> result.rows,
                      call |-> AppendCall(gs.dest, gs.rows, data, result)]
    /\ UNCHANGED <<cacheVars, runVars, file, merge, reader, mainVars, seriesVars>>

\* Outside the program the spreadsheet is deleted, shared or unshared, the
\* worksheet renamed.
SinkChanges ==
    /\ gs.pc # "idle"
    /\ \E dest \in Destinations :
        /\ dest # gs.dest
        /\ gs' = [gs EXCEPT !.dest = dest]
    /\ UNCHANGED <<cacheVars, runVars, file, merge, reader, mainVars, seriesVars>>

SinkInit ==
    /\ CacheIdle
    /\ RunIdle
    /\ \E dest \in Destinations :
        gs = [pc |-> "ready", dest |-> dest, rows |-> <<>>,
              call |-> AppendCall(dest, <<>>, <<>>, AppendResult(dest, <<>>, <<>>))]
    /\ MergeIdle
    /\ MainIdle
    /\ FundsIdle
    /\ SeriesIdle

SinkNext == AppendData \/ SinkChanges

SpecSink == SinkInit /\ [][SinkNext]_vars

\* C13: append_data with an empty row sequence returns True, leaves the
\* rows of the destination as they were and makes no request on the client,
\* whether or not the destination exists.
C13_EmptyAppendNoOp ==
    (gs.pc = "called" /\ gs.call.data = <<>>) =>
        /\ gs.call.returned = "True"
        /\ gs.rows = gs.call.before
        /\ gs.call.requests = <<>>

\* An empty append returned True on a spreadsheet that cannot be opened.
C13_Witness ==
    /\ gs.pc = "called"
    /\ gs.call.data = <<>>
    /\ ~gs.call.dest.spreadsheet
    /\ gs.call.returned = "True"

\* C14: when the spreadsheet or the worksheet is missing or the append is
\* refused, append_data with a non-empty row sequence returns False (it does
\* not raise) and the destination holds the rows it held.
C14_FailureReported ==
    (/\ gs.pc = "called"
     /\ gs.call.data # <<>>
     /\ (~gs.call.dest.spreadsheet \/ ~gs.call.dest.worksheet \/ ~gs.call.dest.writable))
    => /\ gs.call.returned = "False"
       /\ gs.rows = gs.call.before

\* After an append that was accepted, an append of rows was refused.
C14_Witness ==
    /\ gs.pc = "called"
    /\ gs.call.data # <<>>
    /\ gs.call.dest.spreadsheet /\ gs.call.dest.worksheet /\ ~gs.call.dest.writable
    /\ gs.call.returned = "False"
    /\ gs.rows # <<>>

-----------------------------------------------------------------------------
(* DataUpdater._safe_merge_csv: the frames                                 *)

MaxNew == 2
MaxFile == 1

\* The rows of a frame: the key column key_cols[0], a date as text, and a
\* value column. Under the format "%d-%m" the text "02-01" is the cell <<2, 1>>.
DateCells == {<<2, 1>>, <<1, 2>>, <<1, 13>>}
CellValues == {1, 2}
CsvRows == [date : DateCells, val : CellValues]

\* date_fmt: None (here ""), or a format.
DateFmts == {"", "%d-%m"}

\* The frames of at most n rows.
Frames(n) == UNION {[1..k -> CsvRows] : k \in 0..n}

Range(df) == {df[i] : i \in 1..Len(df)}

\* key_cols = ["date"]: the key of a row.
KeyOf(row) == row.date

\* The rows of df at the positions in keep, in their order, from position i on.
RECURSIVE Pick(_, _, _)
Pick(df, keep, i) ==
    IF i > Len(df) THEN <<>>
    ELSE (IF i \in keep THEN <<df[i]>> ELSE <<>>) \o Pick(df, keep, i + 1)

\* pd.concat([existing_df, new_df]).
concat(existing_df, new_df) == existing_df \o new_df

\* A deduplication that drops a row only when the row after it has its key.
drop_duplicates_Adjacent(df) ==
    Pick(df, {i \in 1..Len(df) : i = Len(df) \/ KeyOf(df[i + 1]) # KeyOf(df[i])}, 1)

\* combined.drop_duplicates(subset=key_cols, keep='last'): a row stays when no
\* later row has its key.
drop_duplicates(df) ==
    Pick(df, {i \in 1..Len(df) : \A j \in (i + 1)..Len(df) : KeyOf(df[j]) # KeyOf(df[i])}, 1)

\* pd.to_datetime(cell, format=date_fmt, errors='coerce'): the date as a
\* number that orders chronologically, NaT when the text is not a date.
NaT == 0
to_datetime(cell, date_fmt) ==
    IF cell[1] \in 1..31 /\ cell[2] \in 1..12 THEN cell[2] * 100 + cell[1] ELSE NaT

\* combined.dropna(subset=['_sort_date']).
dropna(df, date_fmt) ==
    Pick(df, {i \in 1..Len(df) : to_datetime(df[i].date, date_fmt) # NaT}, 1)

\* combined.sort_values('_sort_date'): ascending; the keys being dates, no
\* two rows left by drop_duplicates have the same date.
RECURSIVE sort_values(_, _)
sort_values(df, date_fmt) ==
    IF df = <<>> THEN <<>>
    ELSE LET first == CHOOSE i \in 1..Len(df) :
                          \A j \in 1..Len(df) :
                              \/ to_datetime(df[i].date, date_fmt) < to_datetime(df[j].date, date_fmt)
                              \/ (to_datetime(df[i].date, date_fmt) = to_datetime(df[j].date, date_fmt)
                                     /\ i <= j)
         IN  <<df[first]>> \o sort_values(Pick(df, (1..Len(df)) \ {first}, 1), date_fmt)

-----------------------------------------------------------------------------
(* DataUpdater._safe_merge_csv: the file                                   *)

\* What is at filepath: nothing, a CSV file with a header and rows, a file of
\* zero bytes, bytes that do not parse, or a file this process may not read;
\* and whether this process may open filepath for writing.
Files ==
    {[kind |-> "csv", rows |-> df, writable |-> w] : df \in Frames(MaxFile), w \in BOOLEAN}
        \cup {[kind |-> k, rows |-> <<>>, writable |-> w] :
                  k \in {"absent", "empty", "corrupt", "unreadable"}, w \in BOOLEAN}

\* What a read of filepath finds.
Content(f) == [kind |-> f.kind, rows |-> f.rows]

\* pd.read_csv(filepath).
read_csv(f) ==
    IF f.kind = "csv" THEN [raised |-> "", df |-> f.rows]
    ELSE IF f.kind = "empty" THEN [raised |-> "EmptyDataError", df |-> <<>>]
    ELSE [raised |-> "Exception", df |-> <<>>]

\* Lines 321-328 with `except pd.errors.EmptyDataError` alone.
existing_df_OnlyEmptyCaught(f) ==
    IF read_csv(f).raised = "EmptyDataError" THEN [raised |-> "", df |-> <<>>]
    ELSE read_csv(f)

\* Lines 321-328: the frame read, an empty frame when read_csv raised.
existing_df(f) ==
    IF read_csv(f).raised = "EmptyDataError" THEN [raised |-> "", df |-> <<>>]
    ELSE IF read_csv(f).raised # "" THEN [raised |-> "", df |-> <<>>]
    ELSE read_csv(f)

\* Lines 320-343 up to to_csv: the frame that is to be written, or what was
\* raised on the way. When nothing is at filepath new_df is written as it is.
combined(f, new_df, date_fmt) ==
    IF f.kind # "absent"
    THEN LET existing == existing_df(f)
             deduped == drop_duplicates(concat(existing.df, new_df))
         IN  IF existing.raised # "" THEN [raised |-> existing.raised, df |-> <<>>]
             ELSE IF date_fmt # "" THEN [raised |-> "", df |-> sort_values(dropna(deduped, date_fmt), date_fmt)]
             ELSE [raised |-> "", df |-> deduped]
    ELSE [raised |-> "", df |-> new_df]

MergeLocals(pc, new_df, date_fmt, before, frame) ==
    [pc |-> pc, new_df |-> new_df, date_fmt |-> date_fmt, before |-> before, combined |-> frame]

\* _safe_merge_csv(filepath, new_df, key_cols, date_fmt) up to the point where
\* to_csv has opened filepath for writing, which truncates it; an exception
\* on the way is logged and raised again (lines 346-348).
MergeBegin ==
    /\ merge.pc = "ready"
    /\ \E new_df \in Frames(MaxNew), date_fmt \in DateFmts :
        LET c == combined(file, new_df, date_fmt)
        IN  IF c.raised # "" \/ ~file.writable
            THEN /\ merge' = MergeLocals("raised", new_df, date_fmt, file, c.df)
                 /\ UNCHANGED file
            ELSE /\ merge' = MergeLocals("writing", new_df, date_fmt, file, c.df)
                 /\ file' = [file EXCEPT !.kind = "empty", !.rows = <<>>]
    /\ UNCHANGED <<cacheVars, runVars, gs, reader, mainVars, seriesVars>>

\* to_csv writes on: the header with the first write, then rows; with the
\* last row written the file is closed and _safe_merge_csv returns.
MergeWrite ==
    /\ merge.pc = "writing"
    /\ \E n \in 0..(Len(merge.combined) - Len(file.rows)) :
        /\ file.kind = "empty" \/ n > 0
        /\ file' = [file EXCEPT !.kind = "csv",
                                 !.rows = SubSeq(merge.combined, 1, Len(file.rows) + n)]
        /\ merge' = [merge EXCEPT !.pc = IF Len(file.rows) + n = Len(merge.combined)
                                          THEN "done" ELSE "writing"]
    /\ UNCHANGED <<cacheVars, runVars, gs, reader, mainVars, seriesVars>>

\* Another process reads filepath while the call is under way.
ReaderRead ==
    /\ merge.pc = "writing"
    /\ reader = None
    /\ reader' = Some([content |-> Content(file), during |-> merge.pc = "writing"])
    /\ UNCHANGED <<cacheVars, runVars, gs, file, merge, mainVars, seriesVars>>

MergeInit ==
    /\ CacheIdle
    /\ RunIdle
    /\ SinkIdle
    /\ file \in Files
    /\ merge = MergeLocals("ready", <<>>, "", file, <<>>)
    /\ reader = None
    /\ MainIdle
    /\ FundsIdle
    /\ SeriesIdle

MergeNext == MergeBegin \/ MergeWrite \/ ReaderRead

SpecMerge == MergeInit /\ [][MergeNext]_vars

-----------------------------------------------------------------------------
(* Claims about _safe_merge_csv, checked under SpecMerge                   *)

\* The rows supplied to the call, oldest first: those of the file, then the
\* new ones.
Supplied == concat(existing_df(merge.before).df, merge.new_df)

\* C15: after a call of _safe_merge_csv, whether or not the file was there
\* before, the file holds at most one row per key, and the row it holds for
\* a key is the one supplied last with that key.
C15_OneRowPerKey ==
    merge.pc = "done" =>
        /\ \A i, j \in 1..Len(file.rows) :
               i # j => KeyOf(file.rows[i]) # KeyOf(file.rows[j])
        /\ \A r \in Range(file.rows) :
               \E i \in 1..Len(Supplied) :
                   /\ Supplied[i] = r
                   /\ \A j \in (i + 1)..Len(Supplied) : KeyOf(Supplied[j]) # KeyOf(r)

\* C16: after a call of _safe_merge_csv with a date format, whether or not
\* the file was there before, no row of the file has a date that fails to
\* parse, every row with a valid date that survives the deduplication is in
\* the file, and the rows are in ascending order of parsed date.
C16_ValidDatesSorted ==
    (merge.pc = "done" /\ merge.date_fmt # "") =>
        /\ \A r \in Range(file.rows) : to_datetime(r.date, merge.date_fmt) # NaT
        /\ \A r \in Range(drop_duplicates(Supplied)) :
               to_datetime(r.date, merge.date_fmt) # NaT => r \in Range(file.rows)
        /\ \A i, j \in 1..Len(file.rows) :
               i < j => to_datetime(file.rows[i].date, merge.date_fmt)
                            <= to_datetime(file.rows[j].date, merge.date_fmt)

\* The orderings of a frame's rows.
Orderings(df) ==
    {[i \in 1..Len(df) |-> df[p[i]]] :
        p \in {q \in [1..Len(df) -> 1..Len(df)] :
                  \A a, b \in 1..Len(df) : a # b => q[a] # q[b]}}

DisjointKeys(df) == \A i, j \in 1..Len(df) : i # j => KeyOf(df[i]) # KeyOf(df[j])

\* C17: for new rows with pairwise disjoint keys, the set of rows in the
\* file after _safe_merge_csv is the set the call leaves for every other
\* ordering of the new rows.
C17_OrderIndependent ==
    (merge.pc = "done" /\ DisjointKeys(merge.new_df)) =>
        \A p \in Orderings(merge.new_df) :
            Range(file.rows) = Range(combined(merge.before, p, merge.date_fmt).df)

\* Two new rows with different keys, one of them replacing a row of the
\* file, were merged; in the other order the file would list them otherwise.
C17_Witness ==
    /\ merge.pc = "done"
    /\ Len(merge.new_df) = 2
    /\ DisjointKeys(merge.new_df)
    /\ merge.before.kind = "csv"
    /\ \E r \in Range(merge.before.rows) :
           KeyOf(r) = KeyOf(merge.new_df[1]) /\ r # merge.new_df[1]
    /\ \E p \in Orderings(merge.new_df) :
           combined(merge.before, p, merge.date_fmt).df # file.rows

\* The file at filepath was empty, corrupt or unreadable when the call began.
NoExistingSet == merge.pc # "ready" /\ merge.before.kind \in {"empty", "corrupt", "unreadable"}

\* What a call that found a file without rows writes.
AsIfEmpty ==
    combined([kind |-> "csv", rows |-> <<>>, writable |-> TRUE], merge.new_df, merge.date_fmt).df

\* The call did not fail, and once it has returned the file holds what a
\* call on an empty set of existing rows writes: the deduplicated new rows.
MergedAsIfEmpty ==
    /\ merge.pc # "raised"
    /\ merge.pc = "done" =>
           /\ Content(file) = [kind |-> "csv", rows |-> AsIfEmpty]
           /\ merge.date_fmt = "" => file.rows = drop_duplicates(merge.new_df)

C19_NoPartialFile ==
    (reader # None /\ reader[1].during) =>
        \/ reader[1].content = Content(merge.before)
        \/ reader[1].content = [kind |-> "csv", rows |-> merge.combined]

-----------------------------------------------------------------------------
(* DataUpdater.update_nav                                                  *)

MaxLines == 2

\* The columns update_nav takes from a record: Date, Fund Code, Fund Name
\* and NAV.
NavFields == 4

\* The text of a NAV field, as character codes: "12" and "NA".
NavTexts == {<<49, 50>>, <<78, 65>>}

\* The text of a Date field: a day in the form %d-%b-%Y or in another form.
DateTexts == {[fmt |-> f, day |-> 1] : f \in {"%d-%b-%Y", "%Y-%m-%d"}}

\* A data line of the AMFI file: the number of its non-empty fields between
\* semicolons, and the fields update_nav reads.
NavLines == [fields : {NavFields - 1, NavFields}, code : {7}, nav : NavTexts, date : DateTexts]

\* The lines after the header line, at most MaxLines of them.
NavData == UNION {[1..n -> NavLines] : n \in 0..MaxLines}

\* What the AMFI URL can answer with a 2xx: empty text, or text whose header
\* line (the first line holding "Scheme Code" and "Net Asset Value") has
\* `header` fields, 0 when no line is a header.
NavBodies ==
    {[kind |-> "empty", header |-> 0, lines |-> <<>>]}
        \cup [kind : {"text"}, header : {0, NavFields}, lines : NavData]

NavOutcomes ==
    {[resp |-> r, body |-> [kind |-> "none", header |-> 0, lines |-> <<>>]] : r \in {"4xx"} \cup Transient}
        \cup {[resp |-> "2xx", body |-> b] : b \in NavBodies}

\* pd.to_numeric(..., errors='coerce') on one text: the number, or NaN (None).
to_numeric(text) ==
    IF text # <<>> /\ \A i \in 1..Len(text) : text[i] \in 48..57
    THEN Some(DigitsValue(text))
    ELSE None

\* pd.to_datetime(..., format='%d-%b-%Y', errors='coerce') on one text: the
\* day, or NaT (None).
strptime(text) == IF text.fmt = "%d-%b-%Y" THEN Some(text.day) ELSE None

\* .dt.strftime('%Y-%m-%d').
strftime(day) == [fmt |-> "%Y-%m-%d", day |-> day]

\* `if len(parts) == len(header)`: the line becomes a record.
complete(line, header) == line.fields = header

\* records: the data lines that passed the field-count check, in file order.
nav_records(body) == SelectSeq(body.lines, LAMBDA line : complete(line, body.header))

\* nav_data_for_sheet: the records left by the two dropna calls, with the
\* date in the sheet's form and the NAV as a number.
nav_data_for_sheet(records) ==
    LET kept == SelectSeq(records, LAMBDA r : to_numeric(r.nav) # None /\ strptime(r.date) # None)
    IN  [i \in 1..Len(kept) |->
            [date |-> strftime(strptime(kept[i].date)[1]), code |-> kept[i].code,
             nav |-> to_numeric(kept[i].nav)[1]]]

\* The locals of update_nav: nav_data_raw as fetch_url returned it, success
\* as append_data returned it, and the MarketData cache.set is awaited with.
NavLocals(pc, raw, success, pending) ==
    [pc |-> pc, raw |-> raw, success |-> success, pending |-> pending]

\* update_nav has no key to check: it calls fetch_url and suspends, or the
\* limiter rejects the call and `except Exception` returns False.
NavStart ==
    /\ nav.pc = "init"
    /\ LET r == limits(limiter, clock)
           rec == CallRec("nav", "AMFI", 1, clock, r.lim, r.admitted)
       IN  /\ limiter' = r.lim
           /\ calls' = Append(calls, rec)
           /\ IF r.admitted
              THEN /\ nav' = [nav EXCEPT !.pc = "await"]
                   /\ UNCHANGED ret
              ELSE /\ nav' = [nav EXCEPT !.pc = "done"]
                   /\ ret' = [ret EXCEPT !["nav"] = "False"]
    /\ UNCHANGED <<cacheVars, clock, keys, sheets, nifty, fred, run, gs, file, merge, reader, mainVars,
                   gold, currency, funds>>

\* The request in flight ends: lines 604-678.
NavResponse ==
    /\ nav.pc = "await"
    /\ \E o \in NavOutcomes, ok \in BOOLEAN, us \in Micros :
        LET fb == FetchBody(o)
            records == nav_records(o.body)
            rows == nav_data_for_sheet(records)
            parse == IF fb.text = None \/ o.body.kind = "empty" THEN "nodata"
                     ELSE IF o.body.header = 0 THEN "no_header"
                     ELSE IF records = <<>> THEN "no_records"
                     ELSE "ok"
            success == append_returns(rows, ok)
            connect == ConnectOutcome(aiosqlite, db_exists)
            data == MarketData(now(clock, us), Len(rows), "AMFI")
        IN  /\ calls' = Answered("nav", o, parse)
            /\ IF parse # "ok"
               THEN /\ nav' = NavLocals("done", fb.text, FALSE, None)
                    /\ ret' = [ret EXCEPT !["nav"] = "False"]
                    /\ UNCHANGED sheets
               ELSE /\ sheets' = append_data(sheets, "NAV", rows, ok)
                    /\ IF success /\ connect = "returned"
                       THEN /\ nav' = NavLocals("cache_set", fb.text, success, Some(data))
                            /\ UNCHANGED ret
                       ELSE /\ nav' = NavLocals("done", fb.text, success, None)
                            /\ ret' = [ret EXCEPT !["nav"] = "False"]
    /\ UNCHANGED <<cacheVars, clock, limiter, keys, nifty, fred, run, gs, file, merge, reader, mainVars,
                   gold, currency, funds>>

\* await self.cache.set("NAV_Update_Status", ...) completes; returns success.
NavCacheSet ==
    /\ nav.pc = "cache_set"
    /\ Committed("NAV_Update_Status", nav.pending[1], 24)
    /\ nav' = [nav EXCEPT !.pc = "done", !.pending = None]
    /\ ret' = [ret EXCEPT !["nav"] = "True"]
    /\ UNCHANGED <<aiosqlite, db_exists, cache_ret, n_ops, clock, limiter, keys, sheets, nifty, fred, calls,
                   run, gs, file, merge, reader, mainVars, gold, currency, funds>>

\* Time passes while update_nav runs.
NavTick ==
    /\ clock < MaxClock
    /\ clock' = clock + 1
    /\ UNCHANGED <<cacheVars, limiter, keys, sheets, nifty, fred, ret, calls, run, ioVars>>

\* update_nav is called on a fetcher whose limiter has served at most one
\* call of another coroutine in the current period.
NavInit ==
    /\ aiosqlite \in BOOLEAN
    /\ db_exists = aiosqlite
    /\ market_data = {}
    /\ next_id = 1
    /\ cache_ret = Ret("initialize_db", "", IF aiosqlite THEN "returned" ELSE "NameError", None)
    /\ latest_set = {}
    /\ n_ops = 0
    /\ clock = 0
    /\ limiter \in {[last_reset |-> 0, num_calls |-> n] : n \in 0..CALLS}
    /\ keys = [n \in {} |-> FALSE]
    /\ sheets = [n \in {"NAV"} |-> <<>>]
    /\ nifty = [pc |-> "done"]
    /\ fred = [pc |-> "done"]
    /\ ret = [t \in {"nav"} |-> "running"]
    /\ calls = <<>>
    /\ run = 1
    /\ SinkIdle
    /\ MergeIdle
    /\ MainIdle
    /\ FundsIdle
    /\ gold = [pc |-> "done"]
    /\ currency = [pc |-> "done"]
    /\ nav = NavLocals("init", None, FALSE, None)

NavNext == NavTick \/ NavStart \/ NavResponse \/ NavCacheSet

SpecNav == NavInit /\ [][NavNext]_vars

\* The rows of a body that are usable: the field count of the header, a NAV
\* that is a number and a date in the form %d-%b-%Y.
Usable(body) ==
    SelectSeq(body.lines,
              LAMBDA l : l.fields = body.header /\ l.nav = <<49, 50>> /\ l.date.fmt = "%d-%b-%Y")

\* The sheet rows of the usable rows of a body.
UsableRows(body) ==
    [i \in 1..Len(Usable(body)) |->
        [date |-> [fmt |-> "%Y-%m-%d", day |-> Usable(body)[i].date.day],
         code |-> Usable(body)[i].code, nav |-> 12]]

-----------------------------------------------------------------------------
(* main: the session, the gathered tasks and the aggregate                 *)

\* The tasks list, in the order gather receives it.
Series == <<"nifty", "gold", "currency", "nav", "fred">>

\* GOOGLE_SERVICE_ACCOUNT_KEY: not set, set to something the
\* GoogleSheetsManager cannot be built from, or usable.
Credentials == {"absent", "invalid", "valid"}

\* main goes past its two early returns whatever the credential is.
gs_manager_Unchecked(credential) == TRUE

\* `if not google_sa_key_json: return False`, then GoogleSheetsManager(...)
\* in a try whose except returns False: TRUE iff main goes on.
gs_manager(credential) == credential = "valid"

\* The API keys of Config that the coroutines compare with their
\* placeholders.
ConfigKeys == KeyNames \cup {"GOLDAPI", "EXCHANGE_RATE"}

\* The keys a coroutine reads before it fetches; update_nav reads none.
SeriesKeys(task) ==
    CASE task = "nifty" -> Range(NiftySources)
      [] task = "gold" -> {"GOLDAPI"}
      [] task = "currency" -> {"EXCHANGE_RATE"}
      [] task = "fred" -> {"FRED"}
      [] OTHER -> {}

\* No key check: every coroutine goes on to fetch_url.
KeyMissing_Never(task) == FALSE

\* The coroutine returns False before any fetch_url call: the key of
\* update_gold, update_currency or update_fred_data is the placeholder, or
\* every source of update_nifty is skipped and price stays None.
KeyMissing(task) ==
    /\ SeriesKeys(task) # {}
    /\ \A k \in SeriesKeys(task) : ~keys[k]

\* The currency pairs update_currency loops over.
Pairs == <<"USDINR", "EURINR", "BTCINR">>

\* The number of fetch_url calls a coroutine makes at most: one per
\* configured source of update_nifty, one per pair of update_currency, one
\* in the three others.
Fetches(task) ==
    CASE task = "nifty" -> Cardinality({k \in Range(NiftySources) : keys[k]})
      [] task = "currency" -> Len(Pairs)
      [] OTHER -> 1

\* What a task can hand to gather. update_nifty awaits cache.set outside any
\* try, so an error of the database leaves it; the other four coroutines
\* return from `except Exception` whatever is raised inside them.
TaskOutcomes(task) ==
    IF task = "nifty" THEN {"True", "False", "OperationalError"} ELSE {"True", "False"}

\* isinstance(r, bool).
isinstance_bool(r) == r \in {"True", "False"}

\* all(r for r in results): an exception object is truthy.
success_Truthy(results) ==
    \A i \in 1..Len(Series) : results[Series[i]] # "False"

\* success = all(isinstance(r, bool) and r for r in results).
success(results) ==
    \A i \in 1..Len(Series) : isinstance_bool(results[Series[i]]) /\ results[Series[i]] = "True"

\* gather(*tasks) without return_exceptions: the first exception of a task
\* leaves gather while the other tasks are still running.
gather_done_FirstException(results) ==
    \/ \A i \in 1..Len(Series) : results[Series[i]] # "pending"
    \/ \E i \in 1..Len(Series) : results[Series[i]] \notin {"pending", "True", "False"}

\* asyncio.gather(*tasks, return_exceptions=True) hands its results to main
\* when every task has ended, with a value or with an exception.
gather_done(results) ==
    \A i \in 1..Len(Series) : results[Series[i]] # "pending"

\* __aexit__ without the close.
aexit_NoClose(s) == s

\* DataFetcher.__aexit__: `if self.session: await self.session.close()`.
aexit(s) == IF s.state = "open" THEN [s EXCEPT !.state = "closed"] ELSE s

MainLocals(pc, credential, results, returned) ==
    [pc |-> pc, credential |-> credential, results |-> results, returned |-> returned]

\* A coroutine of the tasks list: where it is suspended, how many times its
\* body was started, the number of fetch_url calls it made, the calls it
\* made (fetch: a request through the session, append: append_data, set:
\* cache.set) and whether it holds a row for the sink.
TaskLocals(pc, started, k, did, rows) ==
    [pc |-> pc, started |-> started, k |-> k, did |-> did, rows |-> rows]

\* A task that returned False is created and awaited again.
TaskEnds_Again(task, outcome, self) ==
    /\ outcome \in TaskOutcomes(task)
    /\ IF outcome = "False" /\ self.started < RETRY_ATTEMPTS
       THEN /\ tasks' = [tasks EXCEPT ![task] = TaskLocals("created", self.started, 0, self.did, FALSE)]
            /\ mainst' = mainst
       ELSE /\ tasks' = [tasks EXCEPT ![task] = TaskLocals("ended", self.started, 0, self.did, FALSE)]
            /\ mainst' = [mainst EXCEPT !.results[task] = outcome]
    /\ session' = session

\* A gathered task ends: it returns, or raises and gather keeps the exception
\* as its result (return_exceptions=True). Its locals are gone; what it did
\* stays.
TaskEnds(task, outcome, self) ==
    /\ outcome \in TaskOutcomes(task)
    /\ tasks' = [tasks EXCEPT ![task] = TaskLocals("ended", self.started, 0, self.did, FALSE)]
    /\ mainst' = [mainst EXCEPT !.results[task] = outcome]
    /\ session' = session

\* The coroutine has no fetch_url call left to make. update_currency
\* appends the rows it collected, if any, and returns what append_data
\* returned; the four others return False: no price, no body.
TaskFinish(task, self) ==
    IF task = "currency" /\ self.rows
    THEN \E ok \in BOOLEAN :
            TaskEnds(task, IF ok THEN "True" ELSE "False", [self EXCEPT !.did = @ \cup {"append"}])
    ELSE TaskEnds(task, "False", self)

\* The coroutine calls fetch_url for its next source or pair. The calls the
\* rate limiter rejects raise inside the coroutine's try and issue no
\* request; a call it admits issues a request through the session and
\* suspends the coroutine.
TaskFetch(task, self) ==
    \E rejected \in 0..(Fetches(task) - self.k) :
        IF self.k + rejected < Fetches(task)
        THEN /\ tasks' = [tasks EXCEPT ![task] =
                    [self EXCEPT !.pc = "fetch", !.k = self.k + rejected + 1, !.did = @ \cup {"fetch"}]]
             /\ session' = [session EXCEPT !.used = @ \cup {session.state}]
             /\ mainst' = mainst
        ELSE TaskFinish(task, [self EXCEPT !.k = Fetches(task)])

\* main up to its first await: the credential is read and the manager built,
\* or main returns False (lines 735-749).
MainStart ==
    /\ mainst.pc = "start"
    /\ IF gs_manager(mainst.credential)
       THEN mainst' = [mainst EXCEPT !.pc = "initialize_db"]
       ELSE mainst' = [mainst EXCEPT !.pc = "returned", !.returned = "False"]
    /\ UNCHANGED <<cacheVars, runVars, gs, file, merge, reader, session, tasks, seriesVars>>

\* await cache.initialize_db() ends: the NameError leaves main, or main goes
\* on: DataFetcher.__aenter__ opens the session, the five coroutines are
\* created and handed to gather (lines 749-766).
MainInitializeDb ==
    /\ mainst.pc = "initialize_db"
    /\ n_ops' = n_ops + 1
    /\ IF aiosqlite
       THEN /\ db_exists' = TRUE
            /\ cache_ret' = Ret("initialize_db", "", "returned", None)
            /\ mainst' = [mainst EXCEPT !.pc = "gather",
                                         !.results = [t \in Range(Series) |-> "pending"]]
            /\ session' = [session EXCEPT !.state = "open"]
            /\ tasks' = [t \in Range(Series) |-> TaskLocals("created", 0, 0, {}, FALSE)]
       ELSE /\ db_exists' = db_exists
            /\ cache_ret' = Ret("initialize_db", "", "NameError", None)
            /\ mainst' = [mainst EXCEPT !.pc = "raised", !.returned = "NameError"]
            /\ UNCHANGED <<session, tasks>>
    /\ UNCHANGED <<aiosqlite, market_data, next_id, latest_set, runVars, gs, file, merge, reader, seriesVars>>

\* The event loop runs the first step of a gathered task, the tasks in the
\* order of the list: the coroutine returns False for its missing key, or
\* calls fetch_url.
TaskStart ==
    /\ mainst.pc = "gather"
    /\ \E i \in 1..Len(Series) :
        /\ tasks[Series[i]].pc = "created"
        /\ \A j \in 1..(i - 1) : tasks[Series[j]].started > 0
        /\ LET self == [tasks[Series[i]] EXCEPT !.started = @ + 1]
           IN  IF KeyMissing(Series[i])
               THEN TaskEnds(Series[i], "False", self)
               ELSE TaskFetch(Series[i], self)
    /\ UNCHANGED <<cacheVars, runVars, gs, file, merge, reader, seriesVars>>

\* gather has scheduled the five tasks and the event loop has run the first
\* step of each: it runs the callbacks that are ready, in the order they
\* were scheduled, before it polls for a response.
AllStarted == \A i \in 1..Len(Series) : tasks[Series[i]].started > 0

\* fetch_url returns to the coroutine. Without a usable body update_nifty
\* and update_currency go on to their next source or pair and the others
\* return False. With one, update_currency keeps the row and awaits
\* cache.set; the others call append_data and await cache.set when it
\* returned True, and return False when it did not.
TaskResponse ==
    /\ mainst.pc = "gather"
    /\ AllStarted
    /\ \E task \in Range(Series), usable \in BOOLEAN :
        /\ tasks[task].pc = "fetch"
        /\ LET self == tasks[task]
           IN  CASE ~usable -> TaskFetch(task, self)
                 [] usable /\ task = "currency" ->
                        /\ tasks' = [tasks EXCEPT ![task] = [self EXCEPT !.pc = "cache_set", !.rows = TRUE]]
                        /\ UNCHANGED <<mainst, session>>
                 [] OTHER ->
                        \E ok \in BOOLEAN :
                            LET appended == [self EXCEPT !.did = @ \cup {"append"}]
                            IN  IF ok
                                THEN /\ tasks' = [tasks EXCEPT ![task] = [appended EXCEPT !.pc = "cache_set"]]
                                     /\ UNCHANGED <<mainst, session>>
                                ELSE TaskEnds(task, "False", appended)
    /\ UNCHANGED <<cacheVars, runVars, gs, file, merge, reader, seriesVars>>

\* await self.cache.set(...) ends in the coroutine, by returning or by an
\* error of the database. update_currency goes on to its next pair either
\* way; update_nifty returns True or lets the error out; the others return
\* True, or False from their except.
TaskCacheSet ==
    /\ mainst.pc = "gather"
    /\ AllStarted
    /\ \E task \in Range(Series), outcome \in {"returned", "OperationalError"} :
        /\ tasks[task].pc = "cache_set"
        /\ LET self == [tasks[task] EXCEPT !.did = @ \cup {"set"}]
           IN  CASE task = "currency" -> TaskFetch(task, self)
                 [] outcome = "returned" -> TaskEnds(task, "True", self)
                 [] task = "nifty" -> TaskEnds(task, "OperationalError", self)
                 [] OTHER -> TaskEnds(task, "False", self)
    /\ UNCHANGED <<cacheVars, runVars, gs, file, merge, reader, seriesVars>>

\* gather returns when every task has ended; main computes success, leaves
\* the `async with`, which closes the session, and returns success (lines
\* 766-780).
MainReturns ==
    /\ mainst.pc = "gather"
    /\ gather_done(mainst.results)
    /\ mainst' = [mainst EXCEPT !.pc = "returned",
                                 !.returned = IF success(mainst.results) THEN "True" ELSE "False"]
    /\ session' = aexit(session)
    /\ UNCHANGED <<cacheVars, runVars, gs, file, merge, reader, tasks, seriesVars>>

MainInit ==
    /\ aiosqlite \in BOOLEAN
    /\ db_exists \in BOOLEAN
    /\ market_data = {}
    /\ next_id = 1
    /\ cache_ret = Ret("none", "", "returned", None)
    /\ latest_set = {}
    /\ n_ops = 0
    /\ clock = 0
    /\ limiter = [last_reset |-> 0, num_calls |-> 0]
    /\ keys \in [ConfigKeys -> BOOLEAN]
    /\ sheets = [n \in {} |-> <<>>]
    /\ nifty = [pc |-> "done"]
    /\ fred = [pc |-> "done"]
    /\ ret = [n \in {} |-> ""]
    /\ calls = <<>>
    /\ run = 1
    /\ SinkIdle
    /\ MergeIdle
    /\ SeriesIdle
    /\ FundsIdle
    /\ \E credential \in Credentials :
        mainst = MainLocals("start", credential, [t \in Range(Series) |-> "unstarted"], "")
    /\ session = [state |-> "none", used |-> {}]
    /\ tasks = [t \in Range(Series) |-> TaskLocals("none", 0, 0, {}, FALSE)]

MainNext ==
    \/ MainStart
    \/ MainInitializeDb
    \/ TaskStart
    \/ TaskResponse
    \/ TaskCacheSet
    \/ MainReturns

SpecMain == MainInit /\ [][MainNext]_vars

\* C20: for every combination of outcomes of the series tasks (True, False
\* or a raised exception), what main returns after gathering them is True
\* if and only if every task returned True; a task that raised counts as
\* false.
C20_AggregateIffAllTrue ==
    (mainst.pc = "returned" /\ \A t \in Range(Series) : mainst.results[t] # "unstarted") =>
        /\ mainst.returned \in {"True", "False"}
        /\ mainst.returned = "True" <=> \A t \in Range(Series) : mainst.results[t] = "True"

\* update_nifty raised, the four other tasks returned True, and main
\* returned False.
C20_Witness ==
    /\ mainst.pc = "returned"
    /\ mainst.results["nifty"] = "OperationalError"
    /\ \A t \in Range(Series) \ {"nifty"} : mainst.results[t] = "True"
    /\ mainst.returned = "False"

\* The tasks of the run have all ended: each was started and handed gather a
\* value or an exception.
AllEnded ==
    \A t \in Range(Series) :
        /\ tasks[t].pc = "ended"
        /\ tasks[t].started > 0
        /\ mainst.results[t] \in TaskOutcomes(t)

\* A step in which task t ends with False or with an exception.
Fails(t) ==
    /\ mainst.pc = "gather"
    /\ mainst.results[t] = "pending"
    /\ mainst'.results[t] \in TaskOutcomes(t) \ {"True"}

\* C21: a series task that returns False or raises leaves every other series
\* task where it was, started or not, with its result untouched; and when
\* main concludes a run in which it gathered the tasks, each of the five was
\* started and has run to its end.
C21_TasksIndependent ==
    /\ [](mainst.pc = "returned" /\ mainst.credential = "valid" => AllEnded)
    /\ [][\A t \in Range(Series) :
            Fails(t) => \A u \in Range(Series) \ {t} :
                            tasks'[u] = tasks[u] /\ mainst'.results[u] = mainst.results[u]]_vars

\* update_nifty raised and update_gold returned False; the three other tasks
\* went on to write the cache and returned True, and main has returned.
C21_Witness ==
    /\ mainst.pc = "returned"
    /\ mainst.results["nifty"] = "OperationalError"
    /\ mainst.results["gold"] = "False"
    /\ \A t \in {"currency", "nav", "fred"} :
        mainst.results[t] = "True" /\ "set" \in tasks[t].did

\* Nothing of the run touched the network, the cache or the sink: no session
\* exists, no coroutine was created or called fetch_url, append_data or
\* cache.set, and no DataCache call was made.
NothingDone ==
    /\ session = [state |-> "none", used |-> {}]
    /\ \A t \in Range(Series) : tasks[t].pc = "none" /\ tasks[t].started = 0 /\ tasks[t].did = {}
    /\ n_ops = 0
    /\ market_data = {}

\* C22: when GOOGLE_SERVICE_ACCOUNT_KEY is not set, or the GoogleSheetsManager
\* cannot be built from it, main returns False, and at no point of that run
\* is a fetch issued, the cache called or the sink appended to.
C22_AbortsBeforeAnyWork ==
    mainst.credential # "valid" =>
        /\ NothingDone
        /\ mainst.pc \in {"start", "returned"}
        /\ mainst.pc = "returned" => mainst.returned = "False"

\* main has returned False for a credential the manager could not be built
\* from, in a run whose API keys are all configured.
C22_Witness ==
    /\ mainst.credential = "invalid"
    /\ mainst.pc = "returned"
    /\ mainst.returned = "False"
    /\ \A k \in ConfigKeys : keys[k]

\* The environment configures none of the API keys that series t reads.
Unconfigured(t) ==
    /\ SeriesKeys(t) # {}
    /\ \A k \in SeriesKeys(t) : ~keys[k]

\* C23: a series whose API key is not configured (for Nifty, none of its
\* three) returns False without having called fetch_url, append_data or
\* cache.set, and when main concludes the run every other series was
\* started and has run to its end.
C23_MissingKeyReturnsFalse ==
    \A t \in Range(Series) : Unconfigured(t) =>
        /\ tasks[t].did = {}
        /\ tasks[t].pc \in {"none", "created", "ended"}
        /\ tasks[t].pc = "ended" => mainst.results[t] = "False"
        /\ (mainst.pc = "returned" /\ mainst.credential = "valid") =>
                \A u \in Range(Series) \ {t} : tasks[u].pc = "ended" /\ tasks[u].started = 1

\* Neither the Gold key nor any Nifty key is configured: both tasks returned
\* False having done nothing, and the three other series fetched, appended,
\* wrote the cache and returned True.
C23_Witness ==
    /\ Unconfigured("gold") /\ Unconfigured("nifty")
    /\ mainst.pc = "returned"
    /\ mainst.results["gold"] = "False" /\ tasks["gold"].did = {}
    /\ mainst.results["nifty"] = "False" /\ tasks["nifty"].did = {}
    /\ \A u \in {"currency", "nav", "fred"} :
        mainst.results[u] = "True" /\ tasks[u].did = {"fetch", "append", "set"}

\* C24: whenever main has ended, by returning after gather, by one of its
\* early returns or by the exception of initialize_db, the session of the
\* run is not open, and every request of the run was issued through the
\* session while it was open; the session is opened only by the single
\* `async with DataFetcher(cache)` of main.
C24_SessionClosedAtEnd ==
    /\ session.state \in {"none", "open", "closed"}
    /\ session.used \subseteq {"open"}
    /\ mainst.pc \in {"returned", "raised"} => session.state # "open"
    /\ session.state = "open" <=> mainst.pc = "gather"

\* main returned after gathering tasks that issued requests, and the session
\* they used is closed.
C24_Witness ==
    /\ mainst.pc = "returned"
    /\ session = [state |-> "closed", used |-> {"open"}]
    /\ \A t \in Range(Series) : "fetch" \in tasks[t].did

\* C25: within one invocation of main the body of each series' coroutine is
\* started at most once, exactly once when main concludes a run in which it
\* gathered the tasks, and a task that has ended, with False or otherwise,
\* is not started again.
C25_StartedOnce ==
    /\ [](\A t \in Range(Series) :
            /\ tasks[t].started <= 1
            /\ (mainst.pc = "returned" /\ mainst.credential = "valid") => tasks[t].started = 1)
    /\ [][\A t \in Range(Series) : tasks[t].pc = "ended" => tasks'[t] = tasks[t]]_vars

\* update_gold fetched and returned False, update_fred_data failed to append
\* and returned False; main has returned False and each of the five tasks
\* was started once.
C25_Witness ==
    /\ mainst.pc = "returned"
    /\ mainst.returned = "False"
    /\ mainst.results["gold"] = "False" /\ tasks["gold"].did = {"fetch"}
    /\ mainst.results["fred"] = "False" /\ tasks["fred"].did = {"fetch", "append"}
    /\ \A t \in Range(Series) : tasks[t].started = 1

\* C27: every Nifty observation written, to the sheet or to the cache, has a
\* value strictly greater than 0, whatever number the body carried.
C27_WrittenValuesPositive ==
    /\ \A i \in 1..Len(sheets["NIFTY"]) : sheets["NIFTY"][i].price > 0
    /\ \A r \in market_data : r.data_type = "Nifty" => r.data.value > 0

C29_OneSheetRowPerKey ==
    \A i, j \in 1..Len(sheets["NIFTY"]) :
        i # j => sheets["NIFTY"][i].date # sheets["NIFTY"][j].date

-----------------------------------------------------------------------------
(* The cache.set calls of the gathered coroutines                          *)

\* Every coroutine writing under one key.
CacheKey_Shared(series, k) == "MarketData"

\* The data_type a coroutine passes to cache.set at its k-th call: lines 448,
\* 512, 572 (one key per pair), 669 and 718.
CacheKey(series, k) ==
    CASE series = "nifty" -> "Nifty"
      [] series = "gold" -> "Gold"
      [] series = "currency" ->
            (CASE Pairs[k] = "USDINR" -> "Currency_USDINR"
               [] Pairs[k] = "EURINR" -> "Currency_EURINR"
               [] OTHER -> "Currency_BTCINR")
      [] series = "nav" -> "NAV_Update_Status"
      [] OTHER -> "FRED_CPALTT01INM657N"

\* The source string a coroutine stores in its MarketData (update_nifty: the
\* one of its first source).
SeriesSource(series) ==
    CASE series = "nifty" -> SourceLabel(NiftySources[1])
      [] series = "gold" -> "GoldAPI.io"
      [] series = "currency" -> "ExchangeRate-API"
      [] series = "nav" -> "AMFI"
      [] OTHER -> "FRED"

\* The cache.set calls a coroutine has in its code, numbered in program order.
SetCalls(series) == IF series = "currency" THEN 1..Len(Pairs) ELSE {1}

\* The calls a coroutine makes in a run, in program order: those of SetCalls
\* it reaches, which is none for a series that failed before its call and,
\* in update_currency, one per pair that yielded a rate.
RECURSIVE Ascending(_)
Ascending(S) ==
    IF S = {} THEN <<>>
    ELSE LET least == CHOOSE x \in S : \A y \in S : x <= y
         IN  <<least>> \o Ascending(S \ {least})

\* A coroutine suspended before its next cache.set: the calls it will make,
\* and how many of them it has made.
WriterLocals(k, pending) == [pc |-> "cache_set", k |-> k, pending |-> pending]

\* What the coroutine passes at call number i of its run: every coroutine
\* read the clock in the same microsecond and found the same value.
Passed(series, i) ==
    [data_type |-> CacheKey(series, tasks[series].pending[i]),
     data |-> MarketData(now(0, 0), 100, SeriesSource(series))]

\* The next await self.cache.set(...) of some coroutine ends: the row is
\* committed, or NameError is raised where the name aiosqlite is unbound.
CacheWrite ==
    /\ \E i \in 1..Len(Series) :
        LET series == Series[i]
            self == tasks[series]
        IN  /\ self.k < Len(self.pending)
            /\ tasks' = [tasks EXCEPT ![series].k = self.k + 1]
            /\ IF ConnectOutcome(aiosqlite, db_exists) = "returned"
               THEN Committed(Passed(series, self.k + 1).data_type, Passed(series, self.k + 1).data, 24)
               ELSE UNCHANGED <<market_data, next_id, latest_set>>
    /\ UNCHANGED <<aiosqlite, db_exists, cache_ret, n_ops, runVars, gs, file, merge, reader, mainst,
                   session, seriesVars>>

\* main is in gather and initialize_db has run; each coroutine is about to
\* make the cache.set calls of its run.
WritesInit ==
    /\ aiosqlite \in BOOLEAN
    /\ db_exists = aiosqlite
    /\ market_data = {}
    /\ next_id = 1
    /\ cache_ret = Ret("initialize_db", "", IF aiosqlite THEN "returned" ELSE "NameError", None)
    /\ latest_set = {}
    /\ n_ops = 0
    /\ RunIdle
    /\ SinkIdle
    /\ MergeIdle
    /\ SeriesIdle
    /\ FundsIdle
    /\ mainst = [pc |-> "gather"]
    /\ session = [state |-> "open"]
    /\ tasks \in [Range(Series) -> {WriterLocals(0, <<>>)}
                                      \cup {WriterLocals(0, <<1>>)}
                                      \cup {WriterLocals(0, Ascending(S)) : S \in SUBSET (1..Len(Pairs))}]
    /\ \A i \in 1..Len(Series) :
        \A j \in 1..Len(tasks[Series[i]].pending) :
            tasks[Series[i]].pending[j] \in SetCalls(Series[i])

WritesNext == CacheWrite

SpecWrites == WritesInit /\ [][WritesNext]_vars

\* The rows of the table without their AUTOINCREMENT id.
CacheContent == {[data_type |-> r.data_type, timestamp |-> r.timestamp, data |-> r.data] : r \in market_data}

\* The series that owns a data_type.
Owners(data_type) ==
    {s \in Range(Series) : \E k \in SetCalls(s) : CacheKey(s, k) = data_type}

\* The rows the calls made so far should have left, whatever their order.
Written ==
    {[data_type |-> Passed(s, i).data_type,
      timestamp |-> isoformat(Passed(s, i).data.timestamp),
      data |-> to_dict(Passed(s, i).data)] :
        <<s, i>> \in {p \in Range(Series) \X (1..Len(Pairs)) : p[2] <= tasks[p[1]].k}}

\* C30: no two series pass the same data_type to cache.set; so, the results
\* of the series being fixed, the content of the cache depends only on which
\* calls have been made, not on the order the tasks made them in (the row
\* ids apart), and no call removes or replaces a row that is in the table.
C30_KeysDisjoint ==
    /\ [](\A s1, s2 \in Range(Series) :
            \A k1 \in SetCalls(s1), k2 \in SetCalls(s2) :
                CacheKey(s1, k1) = CacheKey(s2, k2) => s1 = s2 /\ k1 = k2)
    /\ [](CacheContent = IF aiosqlite THEN Written ELSE {})
    /\ [](\A r \in market_data :
            Cardinality(Owners(r.data_type)) = 1 /\ \A s \in Owners(r.data_type) : r.data.source = SeriesSource(s))
    /\ [][market_data \subseteq market_data']_vars

\* All five series have written, update_currency under its three keys, and
\* the seven rows are in the cache.
C30_Witness ==
    /\ \A s \in Range(Series) : tasks[s].k = Cardinality(SetCalls(s))
    /\ Cardinality(market_data) = 4 + Len(Pairs)
    /\ {r.data_type : r \in market_data} =
           {"Nifty", "Gold", "Currency_USDINR", "Currency_EURINR", "Currency_BTCINR",
            "NAV_Update_Status", "FRED_CPALTT01INM657N"}

-----------------------------------------------------------------------------
(* DataUpdater.update_gold                                                 *)

\* The locals of update_gold: success as append_data returned it, and the
\* MarketData cache.set is awaited with.
GoldLocals(pc, appended, pending) == [pc |-> pc, success |-> appended, pending |-> pending]

\* update_gold returns False for its missing key, or calls fetch_url and
\* suspends, or the limiter rejects the call and `except Exception` returns
\* False (lines 477-490).
GoldStart ==
    /\ gold.pc = "init"
    /\ IF keys["GOLDAPI"]
       THEN LET r == limits(limiter, clock)
                rec == CallRec("gold", "GoldAPI.io", 1, clock, r.lim, r.admitted)
            IN  /\ limiter' = r.lim
                /\ calls' = Append(calls, rec)
                /\ IF r.admitted
                   THEN /\ gold' = [gold EXCEPT !.pc = "await"]
                        /\ UNCHANGED ret
                   ELSE /\ gold' = [gold EXCEPT !.pc = "done"]
                        /\ ret' = [ret EXCEPT !["gold"] = "False"]
       ELSE /\ gold' = [gold EXCEPT !.pc = "done"]
            /\ ret' = [ret EXCEPT !["gold"] = "False"]
            /\ UNCHANGED <<limiter, calls>>
    /\ UNCHANGED <<cacheVars, clock, keys, sheets, nifty, fred, run, gs, file, merge, reader, mainVars,
                   currency, nav, funds>>

\* The request in flight ends: lines 490-526. Without a body, with a body
\* that is not JSON, that carries an error or no price, or whose price does
\* not convert, update_gold returns False; with a price it appends the row
\* and, when append_data returned True, awaits cache.set inside its try.
GoldResponse ==
    /\ gold.pc = "await"
    /\ \E o \in Outcomes, ok \in BOOLEAN, us \in Micros :
        LET fb == FetchBody(o)
            ex == Extract(fb.text)
            data_row == [date |-> today_str(clock), price |-> Unwrap(ex.price), source |-> "GoldAPI.io"]
            appended == append_returns(<<data_row>>, ok)
            connect == ConnectOutcome(aiosqlite, db_exists)
            data == MarketData(now(clock, us), Unwrap(ex.price), "GoldAPI.io")
        IN  /\ calls' = Answered("gold", o, ex.parse)
            /\ IF ex.parse # "ok"
               THEN /\ gold' = GoldLocals("done", FALSE, None)
                    /\ ret' = [ret EXCEPT !["gold"] = "False"]
                    /\ UNCHANGED sheets
               ELSE /\ sheets' = append_data(sheets, "GOLD", <<data_row>>, ok)
                    /\ IF appended /\ connect = "returned"
                       THEN /\ gold' = GoldLocals("cache_set", appended, Some(data))
                            /\ UNCHANGED ret
                       ELSE /\ gold' = GoldLocals("done", appended, None)
                            /\ ret' = [ret EXCEPT !["gold"] = "False"]
    /\ UNCHANGED <<cacheVars, clock, limiter, keys, nifty, fred, run, gs, file, merge, reader, mainVars,
                   currency, nav, funds>>

\* await self.cache.set("Gold", ...) completes; update_gold returns True.
GoldCacheSet ==
    /\ gold.pc = "cache_set"
    /\ Committed("Gold", gold.pending[1], 24)
    /\ gold' = [gold EXCEPT !.pc = "done", !.pending = None]
    /\ ret' = [ret EXCEPT !["gold"] = "True"]
    /\ UNCHANGED <<aiosqlite, db_exists, cache_ret, n_ops, clock, limiter, keys, sheets, nifty, fred, calls,
                   run, gs, file, merge, reader, mainVars, currency, nav, funds>>

-----------------------------------------------------------------------------
(* DataUpdater.update_currency                                             *)

\* The locals of update_currency: the index of the pair its loop is at,
\* all_currency_data_rows, success as append_data returned it, and the
\* MarketData cache.set is awaited with.
CurrencyLocals(pc, k, rows, appended, pending) ==
    [pc |-> pc, k |-> k, rows |-> rows, success |-> appended, pending |-> pending]

\* The loop stopping at the first pair whose iteration ended in `continue`.
NextPair_Break(k, yielded) == IF yielded THEN k + 1 ELSE Len(Pairs) + 1

\* `continue`, or the end of an iteration: the loop goes on to the next pair
\* whether the pair yielded a rate or not.
NextPair(k, yielded) == k + 1

\* The loop from pair k up to its next suspension: fetch_url is called for
\* each pair in turn; a call the limiter rejects raises into the iteration's
\* `except Exception`, which continues with the next pair.
RECURSIVE CurrencyAdvance(_, _, _)
CurrencyAdvance(k, lim, log) ==
    IF k > Len(Pairs)
    THEN [inflight |-> FALSE, k |-> k, lim |-> lim, log |-> log]
    ELSE LET r == limits(lim, clock)
             rec == CallRec("currency", Pairs[k], 1, clock, r.lim, r.admitted)
         IN  IF r.admitted
             THEN [inflight |-> TRUE, k |-> k, lim |-> r.lim, log |-> Append(log, rec)]
             ELSE CurrencyAdvance(NextPair(k, FALSE), r.lim, Append(log, rec))

\* Lines 584-594: with rows collected, what append_data returned; without,
\* False.
currency_returns(rows, appended) == rows # <<>> /\ appended

\* update_currency run from pair k to its next suspension or, after the
\* loop, through the single append_data call to its return.
CurrencyProceed(k, rows, log, ok) ==
    LET a == CurrencyAdvance(k, limiter, log)
        appended == rows # <<>> /\ append_returns(rows, ok)
    IN  /\ limiter' = a.lim
        /\ calls' = a.log
        /\ IF a.inflight
           THEN /\ currency' = CurrencyLocals("await", a.k, rows, FALSE, None)
                /\ UNCHANGED <<sheets, ret>>
           ELSE /\ currency' = CurrencyLocals("done", a.k, rows, appended, None)
                /\ sheets' = IF rows # <<>> THEN append_data(sheets, "CURRENCY", rows, ok) ELSE sheets
                /\ ret' = [ret EXCEPT !["currency"] =
                              IF currency_returns(rows, appended) THEN "True" ELSE "False"]

\* update_currency returns False for its missing key, or enters its loop.
CurrencyStart ==
    /\ currency.pc = "init"
    /\ IF keys["EXCHANGE_RATE"]
       THEN \E ok \in BOOLEAN : CurrencyProceed(1, <<>>, calls, ok)
       ELSE /\ currency' = [currency EXCEPT !.pc = "done"]
            /\ ret' = [ret EXCEPT !["currency"] = "False"]
            /\ UNCHANGED <<limiter, calls, sheets>>
    /\ UNCHANGED <<cacheVars, clock, keys, nifty, fred, run, gs, file, merge, reader, mainVars, gold, nav, funds>>

\* The request of pair k ends: lines 553-582. Without a rate the iteration
\* continues; with one the row is collected and cache.set awaited, whose
\* NameError or OperationalError the iteration's `except Exception` catches.
CurrencyResponse ==
    /\ currency.pc = "await"
    /\ \E o \in Outcomes, ok \in BOOLEAN, us \in Micros :
        LET fb == FetchBody(o)
            ex == Extract(fb.text)
            row == [date |-> today_str(clock), pair |-> Pairs[currency.k], price |-> Unwrap(ex.price),
                    source |-> "ExchangeRate-API"]
            connect == ConnectOutcome(aiosqlite, db_exists)
            data == MarketData(now(clock, us), Unwrap(ex.price), "ExchangeRate-API")
            log == Answered("currency", o, ex.parse)
        IN  IF ex.parse # "ok"
            THEN CurrencyProceed(NextPair(currency.k, FALSE), currency.rows, log, ok)
            ELSE IF connect = "returned"
            THEN /\ currency' = CurrencyLocals("cache_set", currency.k, Append(currency.rows, row),
                                               FALSE, Some(data))
                 /\ calls' = log
                 /\ UNCHANGED <<limiter, sheets, ret>>
            ELSE CurrencyProceed(NextPair(currency.k, TRUE), Append(currency.rows, row), log, ok)
    /\ UNCHANGED <<cacheVars, clock, keys, nifty, fred, run, gs, file, merge, reader, mainVars, gold, nav, funds>>

\* await self.cache.set("Currency_<pair>", ...) completes and the loop goes
\* on.
CurrencyCacheSet ==
    /\ currency.pc = "cache_set"
    /\ Committed(CacheKey("currency", currency.k), currency.pending[1], 24)
    /\ \E ok \in BOOLEAN : CurrencyProceed(NextPair(currency.k, TRUE), currency.rows, calls, ok)
    /\ UNCHANGED <<aiosqlite, db_exists, cache_ret, n_ops, clock, keys, nifty, fred, run, gs, file, merge,
                   reader, mainVars, gold, nav, funds>>

-----------------------------------------------------------------------------
(* One update coroutine of DataUpdater called on a fetcher                 *)

\* The sheets of Config.Files the five coroutines append to.
SheetIds == {"NIFTY", "GOLD", "CURRENCY", "NAV", "FRED"}

\* The locals a coroutine starts with.
Started(series) ==
    CASE series = "nifty" -> NiftyLocals("init", 1, 1, None, "", None)
      [] series = "gold" -> GoldLocals("init", FALSE, None)
      [] series = "currency" -> CurrencyLocals("init", 1, <<>>, FALSE, None)
      [] series = "nav" -> NavLocals("init", None, FALSE, None)
      [] OTHER -> FredLocals("init", 1, None)

\* One of the five coroutines is called, the others are not; the limiter has
\* served at most one call of another coroutine in the current period, and
\* the keys the coroutine does not read are configured.
UpdateInit ==
    /\ aiosqlite \in BOOLEAN
    /\ db_exists = aiosqlite
    /\ market_data = {}
    /\ next_id = 1
    /\ cache_ret = Ret("initialize_db", "", IF aiosqlite THEN "returned" ELSE "NameError", None)
    /\ latest_set = {}
    /\ n_ops = 0
    /\ clock = 0
    /\ limiter \in {[last_reset |-> 0, num_calls |-> n] : n \in 0..CALLS}
    /\ sheets = [n \in SheetIds |-> <<>>]
    /\ calls = <<>>
    /\ run = 1
    /\ SinkIdle
    /\ MergeIdle
    /\ MainIdle
    /\ FundsIdle
    /\ \E series \in Range(Series) :
        /\ keys \in {c \in [ConfigKeys -> BOOLEAN] : \A n \in ConfigKeys \ SeriesKeys(series) : c[n]}
        /\ ret = [t \in Range(Series) |-> IF t = series THEN "running" ELSE "not called"]
        /\ nifty = IF series = "nifty" THEN Started(series) ELSE [pc |-> "done"]
        /\ gold = IF series = "gold" THEN Started(series) ELSE [pc |-> "done"]
        /\ currency = IF series = "currency" THEN Started(series) ELSE [pc |-> "done"]
        /\ nav = IF series = "nav" THEN Started(series) ELSE [pc |-> "done"]
        /\ fred = IF series = "fred" THEN Started(series) ELSE [pc |-> "done"]

UpdateNext ==
    \/ Tick
    \/ NiftyStart
    \/ NiftyResponse
    \/ NiftyCacheSet
    \/ GoldStart
    \/ GoldResponse
    \/ GoldCacheSet
    \/ CurrencyStart
    \/ CurrencyResponse
    \/ CurrencyCacheSet
    \/ NavStart
    \/ NavResponse
    \/ NavCacheSet
    \/ FredStart
    \/ FredResponse
    \/ FredCacheSet

SpecUpdate == UpdateInit /\ [][UpdateNext]_vars

-----------------------------------------------------------------------------
(* Claims about the sink and the cache of one update, checked under        *)
(* SpecUpdate                                                              *)

\* The coroutine read a value from a body, so it went on to append_data.
ValueRead(series) == \E i \in CallsOf(series) : calls[i].parse = "ok"

\* The coroutine has ended, it called append_data with its rows and
\* append_data returned False: the sheet did not take them.
SinkRefused(series) ==
    /\ ValueRead(series)
    /\ CASE series = "nifty" -> nifty.pc = "done" /\ sheets["NIFTY"] = <<>>
         [] series = "gold" -> gold.pc = "done" /\ sheets["GOLD"] = <<>>
         [] series = "nav" -> nav.pc = "done" /\ ~nav.success
         [] OTHER -> fred.pc = "done" /\ sheets["FRED"] = <<>>

\* C31: when append_data returned False in update_nifty, update_gold,
\* update_nav or update_fred_data, the coroutine returned False and made
\* no cache.set: the cache holds nothing under the key of that series.
C31_SinkFailureLeavesCache ==
    \A series \in {"nifty", "gold", "nav", "fred"} :
        SinkRefused(series) =>
            /\ ret[series] = "False"
            /\ \A r \in market_data : r.data_type # CacheKey(series, 1)
            /\ \A e \in latest_set : e.data_type # CacheKey(series, 1)

\* update_gold read a price, the Gold sheet refused the row, and update_gold
\* returned False with a cache that works and was left empty.
C31_Witness ==
    /\ aiosqlite
    /\ SinkRefused("gold")
    /\ ~gold.success
    /\ ret["gold"] = "False"
    /\ market_data = {}

\* The sheet of the series holds a row carrying the cached observation r:
\* its value, for a currency pair also the pair, and for the status of
\* update_nav at least as many rows as the cached count.
SinkRowFor(r) ==
    CASE r.data_type = "Nifty" ->
            \E i \in 1..Len(sheets["NIFTY"]) : sheets["NIFTY"][i].price = r.data.value
      [] r.data_type = "Gold" ->
            \E i \in 1..Len(sheets["GOLD"]) : sheets["GOLD"][i].price = r.data.value
      [] r.data_type = "NAV_Update_Status" -> Len(sheets["NAV"]) >= r.data.value
      [] r.data_type = "FRED_CPALTT01INM657N" ->
            \E i \in 1..Len(sheets["FRED"]) : sheets["FRED"][i].value = r.data.value
      [] OTHER ->
            \E i \in 1..Len(sheets["CURRENCY"]), k \in 1..Len(Pairs) :
                /\ r.data_type = CacheKey("currency", k)
                /\ sheets["CURRENCY"][i].pair = Pairs[k]
                /\ sheets["CURRENCY"][i].price = r.data.value

SheetOf(series) ==
    CASE series = "nifty" -> "NIFTY"
      [] series = "gold" -> "GOLD"
      [] series = "currency" -> "CURRENCY"
      [] series = "nav" -> "NAV"
      [] OTHER -> "FRED"

\* The coroutine has ended with a false outcome: it returned False or raised.
OutcomeFalse(series) == ret[series] \notin {"True", "running", "not called"}

\* C33: a series whose outcome is false, because its coroutine returned
\* False or raised, has appended no row to its sheet, also when what failed
\* was the cache write after the append.
C33_FalseOutcomeNoSinkRow ==
    \A series \in Range(Series) : OutcomeFalse(series) => sheets[SheetOf(series)] = <<>>

\* The pairs whose request yielded a rate.
Yielded ==
    {k \in 1..Len(Pairs) :
        \E i \in CallsOf("currency") : calls[i].src = Pairs[k] /\ calls[i].parse = "ok"}

\* update_currency has returned.
CurrencyEnded == currency.pc = "done" /\ ret["currency"] \in {"True", "False"}

\* C34: update_currency requests USDINR, EURINR and BTCINR in this order
\* and, with its key configured, all three whatever became of the earlier
\* ones; it returns True exactly when a pair yielded a rate and the one
\* append_data call put the rows of all yielding pairs into the sheet, and
\* when it returns False the sheet got no row.
C34_PairsInTurnTrueIffAppended ==
    /\ \A i \in CallsOf("currency") : i <= Len(Pairs) /\ calls[i].src = Pairs[i]
    /\ CurrencyEnded /\ keys["EXCHANGE_RATE"] => Cardinality(CallsOf("currency")) = Len(Pairs)
    /\ CurrencyEnded =>
          /\ ret["currency"] = "True" <=> Yielded # {} /\ sheets["CURRENCY"] # <<>>
          /\ sheets["CURRENCY"] # <<>> =>
                /\ Len(sheets["CURRENCY"]) = Cardinality(Yielded)
                /\ \A i, j \in 1..Len(sheets["CURRENCY"]) :
                      i # j => sheets["CURRENCY"][i].pair # sheets["CURRENCY"][j].pair
                /\ \A i \in 1..Len(sheets["CURRENCY"]) :
                      \E k \in Yielded : sheets["CURRENCY"][i].pair = Pairs[k]

\* EURINR gave no rate, USDINR and BTCINR did, and update_currency returned
\* True with their two rows in the sheet.
C34_Witness ==
    /\ CurrencyEnded
    /\ Yielded = {1, 3}
    /\ ret["currency"] = "True"
    /\ Len(sheets["CURRENCY"]) = 2

-----------------------------------------------------------------------------
(* A claim about how main ends, checked under SpecMain                     *)

\* C35: main never raises: whenever it has ended, with the credential
\* missing, a task that raised, or a cache that failed to initialize or to
\* write, it has returned True or False.
C35_MainReturnsBoolean ==
    /\ mainst.pc # "raised"
    /\ mainst.pc = "returned" => mainst.returned \in {"True", "False"}

-----------------------------------------------------------------------------
(* IndianMutualFundDataFetcher (src/get_indian_mutual_funds.py)            *)

MaxSchemes == 2

\* self.max_retries and self.retry_delay (seconds) of __init__.
max_retries == 3
retry_delay == 2

\* `schemes[:100]`: get_fund_data converts at most this many MFAPI schemes.
SchemesLimit == 100

\* The text of a scheme code, as character codes: "1", "2" and "A".
CodeTexts == {<<49>>, <<50>>, <<65>>}

\* The text of the NAV field of an AMFI line: "1", "0", "N.A." and "x".
NotAvailable == <<78, 46, 65, 46>>
AmfiNavTexts == {<<49>>, <<48>>, NotAvailable, <<120>>}

\* str.isnumeric() on a text of ASCII characters: not empty, all digits.
isnumeric(text) == text # <<>> /\ \A i \in 1..Len(text) : text[i] \in 48..57

\* float(text) on a text of ASCII characters: the number of a digit string,
\* ValueError (None) for the other texts used here.
float(text) == IF isnumeric(text) THEN Some(DigitsValue(text)) ELSE None

\* A line of NAVAll.txt holding semicolons: the number of its parts and the
\* parts fetch_amfi_daily_nav reads.
AmfiLines == [fields : {5, 6}, code : {<<49>>}, name : {"Fund"}, nav : AmfiNavTexts,
              date : DateTexts]

\* What one request to amfi_daily_url ends in: a requests.RequestException
\* (connection error, timeout, or the HTTPError of raise_for_status), or a
\* text of at most MaxSchemes such lines.
AmfiOutcomes ==
    {[kind |-> "RequestException", lines |-> <<>>]}
        \cup {[kind |-> "text", lines |-> l] : l \in UNION {[1..n -> AmfiLines] : n \in 0..MaxSchemes}}

\* The line passes `len(parts) >= 6` and the try of lines 79-99 raises no
\* ValueError: the NAV is N.A. or converts, and the date parses.
amfi_parses(line) ==
    /\ line.fields >= 6
    /\ line.nav = NotAvailable \/ float(line.nav) # None
    /\ strptime(line.date) # None

\* nav_data of fetch_amfi_daily_nav as a DataFrame, with the columns that
\* get_fund_data and validate_and_clean_data read; nav is None for N.A.
amfi_nav_data(lines) ==
    LET kept == SelectSeq(lines, amfi_parses)
    IN  [i \in 1..Len(kept) |->
            [scheme_code |-> Some(kept[i].code), scheme_name |-> Some(kept[i].name),
             nav |-> IF kept[i].nav = NotAvailable THEN None ELSE float(kept[i].nav),
             source |-> "AMFI"]]

\* An element of the list MFAPI answers with: schemeCode and schemeName, each
\* present or not, and nav: absent, a number, a text float() rejects, or null.
MfapiNavs == {[kind |-> "absent", value |-> 0], [kind |-> "number", value |-> 1],
              [kind |-> "text", value |-> 0], [kind |-> "null", value |-> 0]}
MfapiSchemes == [schemeCode : {None, Some(<<49>>)}, schemeName : {None, Some("Fund")},
                 nav : MfapiNavs]

\* What the request to mfapi_base_url ends in for fetch_mfapi_schemes: any
\* exception, which it turns into None, or a list of at most MaxSchemes
\* schemes.
MfapiOutcomes ==
    {[kind |-> "Exception", schemes |-> <<>>]}
        \cup {[kind |-> "json", schemes |-> l] : l \in UNION {[1..n -> MfapiSchemes] : n \in 0..MaxSchemes}}

\* The body of the loop of lines 253-263 on one scheme: KeyError for a
\* missing schemeCode or schemeName and ValueError from float() are caught
\* and the scheme skipped, the TypeError of float(None) is not caught.
mfapi_converts(scheme) ==
    IF scheme.schemeCode = None \/ scheme.schemeName = None THEN "KeyError"
    ELSE IF scheme.nav.kind = "text" THEN "ValueError"
    ELSE IF scheme.nav.kind = "null" THEN "TypeError"
    ELSE "ok"

\* nav_data of get_fund_data as a DataFrame: scheme.get('nav', 0) gives 0
\* for a scheme without nav.
mfapi_nav_data(schemes) ==
    LET first == SubSeq(schemes, 1, IF Len(schemes) < SchemesLimit THEN Len(schemes) ELSE SchemesLimit)
        kept == SelectSeq(first, LAMBDA scheme : mfapi_converts(scheme) = "ok")
    IN  [i \in 1..Len(kept) |->
            [scheme_code |-> kept[i].schemeCode, scheme_name |-> kept[i].schemeName,
             nav |-> Some(kept[i].nav.value), source |-> "MFAPI"]]

\* drop_duplicates(subset=['scheme_code'], keep='last').
first_per_code_Last(df) ==
    LET keep == {i \in 1..Len(df) : \A j \in (i + 1)..Len(df) : df[j].scheme_code # df[i].scheme_code}
        at == Ascending(keep)
    IN  [i \in 1..Len(at) |-> df[at[i]]]

\* drop_duplicates(subset=['scheme_code'], keep='first'): a row stays when
\* no earlier row has its scheme_code.
first_per_code(df) ==
    LET keep == {i \in 1..Len(df) : \A j \in 1..(i - 1) : df[j].scheme_code # df[i].scheme_code}
        at == Ascending(keep)
    IN  [i \in 1..Len(at) |-> df[at[i]]]

\* validate_and_clean_data(df): dropna on the three columns, nav > 0,
\* drop_duplicates on scheme_code, then the scheme codes that are numeric.
validate_and_clean_data(df) ==
    LET present == SelectSeq(df, LAMBDA r : r.scheme_code # None /\ r.scheme_name # None /\ r.nav # None)
        positive == SelectSeq(present, LAMBDA r : r.nav[1] > 0)
        unique == first_per_code(positive)
    IN  SelectSeq(unique, LAMBDA r : isnumeric(r.scheme_code[1]))

\* save_data(df, filename_prefix): one file per format, a format whose write
\* raises is logged and left out.
save_data(df, filename_prefix, written) ==
    {[format |-> f, prefix |-> filename_prefix, rows |-> df] : f \in written}

\* The wait after failed attempt `attempt` being retry_delay every time.
retry_wait_Constant(attempt) == retry_delay

\* time.sleep(self.retry_delay * (2 ** attempt)).
retry_wait(attempt) == retry_delay * 2^attempt

\* The primary source is used when its cleaned table has a row.
primary_usable_Cleaned(df) == df # None /\ validate_and_clean_data(df[1]) # <<>>

\* `if df is not None and not df.empty`.
primary_usable(df) == df # None /\ df[1] # <<>>

\* The locals of get_fund_data and of the fetch_amfi_daily_nav call in it:
\* the attempt its loop is at, the seconds slept, the sources requested,
\* what fetch_amfi_daily_nav returned, what get_fund_data returned and the
\* files save_data wrote.
FundsLocals(pc, attempt, slept, requests, returned, amfi, result, saved) ==
    [pc |-> pc, attempt |-> attempt, slept |-> slept, requests |-> requests,
     amfi_returned |-> returned, amfi |-> amfi, result |-> result, saved |-> saved]

\* get_fund_data after fetch_amfi_daily_nav returned df: lines 239-248.
Primary(df, requests) ==
    IF primary_usable(df)
    THEN \E written \in SUBSET {"csv", "json"} :
            LET cleaned == validate_and_clean_data(df[1])
            IN  funds' = FundsLocals("done", funds.attempt, funds.slept, requests, TRUE, df,
                                     Some(cleaned), save_data(cleaned, "mf_nav_amfi", written))
    ELSE funds' = FundsLocals("mfapi", funds.attempt, funds.slept, requests, TRUE, df, None, {})

\* One attempt of fetch_amfi_daily_nav: lines 56-116. A RequestException
\* is followed by the sleep and the next attempt, or after the last attempt
\* by `return None`; a text is parsed and returned.
AmfiRequest ==
    /\ funds.pc = "amfi"
    /\ \E o \in AmfiOutcomes :
        LET requests == Append(funds.requests, "AMFI")
        IN  IF o.kind = "RequestException"
            THEN IF funds.attempt < max_retries - 1
                 THEN funds' = [funds EXCEPT !.attempt = @ + 1,
                                             !.slept = Append(@, retry_wait(funds.attempt)),
                                             !.requests = requests]
                 ELSE Primary(None, requests)
            ELSE Primary(Some(amfi_nav_data(o.lines)), requests)
    /\ UNCHANGED <<cacheVars, runVars, gs, file, merge, reader, mainVars, gold, currency, nav>>

\* The request of fetch_mfapi_schemes and the rest of get_fund_data: lines
\* 248-274.
MfapiRequest ==
    /\ funds.pc = "mfapi"
    /\ \E o \in MfapiOutcomes, written \in SUBSET {"csv", "json"} :
        LET requests == Append(funds.requests, "MFAPI")
            schemes == IF o.kind = "Exception" THEN None ELSE Some(o.schemes)
            df == mfapi_nav_data(o.schemes)
            cleaned == validate_and_clean_data(df)
            raises == \E i \in 1..Len(o.schemes) :
                          i <= SchemesLimit /\ mfapi_converts(o.schemes[i]) = "TypeError"
        IN  IF schemes # None /\ schemes[1] # <<>> /\ raises
            THEN funds' = [funds EXCEPT !.pc = "raised", !.requests = requests]
            ELSE IF schemes # None /\ schemes[1] # <<>> /\ df # <<>>
            THEN funds' = [funds EXCEPT !.pc = "done", !.requests = requests, !.result = Some(cleaned),
                                        !.saved = save_data(cleaned, "mf_nav_mfapi", written)]
            ELSE funds' = [funds EXCEPT !.pc = "done", !.requests = requests, !.result = Some(<<>>)]
    /\ UNCHANGED <<cacheVars, runVars, gs, file, merge, reader, mainVars, gold, currency, nav>>

\* get_fund_data was called on a new IndianMutualFundDataFetcher.
FundsInit ==
    /\ CacheIdle
    /\ RunIdle
    /\ SinkIdle
    /\ MergeIdle
    /\ MainIdle
    /\ SeriesIdle
    /\ funds = FundsLocals("amfi", 0, <<>>, <<>>, FALSE, None, None, {})

FundsNext ==
    \/ AmfiRequest
    \/ MfapiRequest

SpecFunds == FundsInit /\ [][FundsNext]_vars

\* get_fund_data is one synchronous call and each of its requests has a
\* timeout, so a request that can end does end.
SpecFundsFair == SpecFunds /\ WF_vars(FundsNext)

-----------------------------------------------------------------------------
(* Claims about get_fund_data, checked under SpecFunds and SpecFundsFair   *)

\* The number of requests made to a source so far.
Requested(source) == Cardinality({i \in 1..Len(funds.requests) : funds.requests[i] = source})

\* The attempts and waits of fetch_amfi_daily_nav so far: at most
\* max_retries attempts, the i-th wait of retry_delay * 2^(i-1) seconds, one
\* wait after every failed attempt but the last possible one, and the
\* attempt that got a text being the last attempt.
AttemptsAndWaits ==
    /\ Requested("AMFI") <= max_retries
    /\ \A i \in 1..Len(funds.slept) : funds.slept[i] = retry_delay * 2^(i - 1)
    /\ ~funds.amfi_returned => Len(funds.slept) = Requested("AMFI")
    /\ funds.amfi_returned /\ funds.amfi = None =>
          Requested("AMFI") = max_retries /\ Len(funds.slept) = max_retries - 1
    /\ funds.amfi_returned /\ funds.amfi # None => Requested("AMFI") = Len(funds.slept) + 1

\* C36: fetch_amfi_daily_nav terminates. It returns None exactly after
\* max_retries failed attempts with waits of retry_delay * 2^attempt between
\* them and none after the last, and an attempt that succeeds is its last.
C36_AmfiTerminates == []AttemptsAndWaits /\ <>funds.amfi_returned

\* Three attempts failed, with waits of 2 and 4 seconds, and
\* fetch_amfi_daily_nav returned None.
C36_Witness ==
    /\ funds.amfi_returned
    /\ funds.amfi = None
    /\ Requested("AMFI") = 3
    /\ funds.slept = <<2, 4>>

\* fetch_amfi_daily_nav returned a table with at least one row.
AmfiGaveRows == funds.amfi_returned /\ funds.amfi # None /\ funds.amfi[1] # <<>>

\* C37: MFAPI is requested only after fetch_amfi_daily_nav returned None
\* or an empty table, and after every AMFI request; when AMFI returned rows,
\* MFAPI is never requested and what get_fund_data saves and returns is the
\* AMFI table: files named mf_nav_amfi whose rows have source AMFI.
C37_SecondaryOnlyAfterPrimary ==
    /\ \A i \in 1..Len(funds.requests) :
          funds.requests[i] = "MFAPI" =>
              /\ funds.amfi_returned
              /\ funds.amfi = None \/ funds.amfi[1] = <<>>
              /\ \A j \in 1..Len(funds.requests) : funds.requests[j] = "AMFI" => j < i
    /\ AmfiGaveRows =>
          /\ Requested("MFAPI") = 0
          /\ funds.pc = "done"
          /\ \A i \in 1..Len(funds.result[1]) : funds.result[1][i].source = "AMFI"
          /\ \A f \in funds.saved :
                /\ f.prefix = "mf_nav_amfi"
                /\ f.rows = funds.result[1]

\* AMFI failed once and then returned a row, which was cleaned, saved in
\* both formats and returned without a request to MFAPI.
C37_Witness ==
    /\ AmfiGaveRows
    /\ funds.requests = <<"AMFI", "AMFI">>
    /\ funds.result # None
    /\ funds.result[1] # <<>>
    /\ Cardinality(funds.saved) = 2

\* C38: whenever get_fund_data has returned an empty table, both AMFI and
\* MFAPI were requested in the call.
C38_EmptyOnlyWhenAllFailed ==
    funds.pc = "done" /\ funds.result = Some(<<>>) =>
        Requested("AMFI") > 0 /\ Requested("MFAPI") > 0

-----------------------------------------------------------------------------
(* validate_and_clean_data applied to a table, and to its own result       *)

\* A row of a table with the columns validate_and_clean_data reads, each
\* value present or missing (None, NaN); nav negative, zero or positive.
TableRows == [scheme_code : {None} \cup {Some(c) : c \in CodeTexts}, scheme_name : {None, Some("Fund")},
              nav : {None, Some(0 - 1), Some(0), Some(1), Some(2)}]

\* The tables of at most MaxSchemes rows.
Tables == UNION {[1..n -> TableRows] : n \in 0..MaxSchemes}

\* df = validate_and_clean_data(df) on a table.
Clean ==
    /\ funds.pc = "table"
    /\ funds' = [funds EXCEPT !.pc = "cleaned", !.cleaned = Some(validate_and_clean_data(funds.df))]
    /\ UNCHANGED <<cacheVars, runVars, gs, file, merge, reader, mainVars, gold, currency, nav>>

\* validate_and_clean_data applied to the table it returned.
CleanAgain ==
    /\ funds.pc = "cleaned"
    /\ funds' = [funds EXCEPT !.pc = "again", !.again = Some(validate_and_clean_data(funds.cleaned[1]))]
    /\ UNCHANGED <<cacheVars, runVars, gs, file, merge, reader, mainVars, gold, currency, nav>>

CleanInit ==
    /\ CacheIdle
    /\ RunIdle
    /\ SinkIdle
    /\ MergeIdle
    /\ MainIdle
    /\ SeriesIdle
    /\ \E df \in Tables : funds = [pc |-> "table", df |-> df, cleaned |-> None, again |-> None]

CleanNext ==
    \/ Clean
    \/ CleanAgain

SpecClean == CleanInit /\ [][CleanNext]_vars

\* The row has its three values and a positive nav.
PassedNav(r) == r.scheme_code # None /\ r.scheme_name # None /\ r.nav # None /\ r.nav[1] > 0

\* C39: every row of the result of validate_and_clean_data has a
\* scheme_code, a scheme_name and a nav, its nav is positive and its
\* scheme_code consists of digits; no two rows have the same scheme_code, and
\* each row is the first row of the input with its scheme_code among the
\* rows with all three values and a positive nav; cleaning the result again
\* returns the result.
C39_CleanedValidUniqueIdempotent ==
    funds.pc \in {"cleaned", "again"} =>
        LET df == funds.df
            out == funds.cleaned[1]
        IN  /\ \A i \in 1..Len(out) :
                  /\ PassedNav(out[i])
                  /\ out[i].scheme_code[1] # <<>>
                  /\ \A k \in 1..Len(out[i].scheme_code[1]) : out[i].scheme_code[1][k] \in 48..57
                  /\ \E k \in 1..Len(df) :
                        /\ df[k] = out[i]
                        /\ \A j \in 1..(k - 1) :
                              PassedNav(df[j]) => df[j].scheme_code # out[i].scheme_code
            /\ \A i, j \in 1..Len(out) : i # j => out[i].scheme_code # out[j].scheme_code
            /\ funds.pc = "again" => funds.again = funds.cleaned

\* Two rows with the same numeric scheme_code and different positive navs:
\* the result is the first, and cleaning it again returned it unchanged.
C39_Witness ==
    /\ funds.pc = "again"
    /\ Len(funds.df) = 2
    /\ funds.df[1].scheme_code = funds.df[2].scheme_code
    /\ funds.df[1].nav # funds.df[2].nav
    /\ PassedNav(funds.df[1])
    /\ PassedNav(funds.df[2])
    /\ funds.cleaned = Some(<<funds.df[1]>>)
    /\ funds.again = funds.cleaned

====
